---- MODULE Spec2Model ----
(***************************************************************************)
(* Generic repository engine of gara-be (app/repositories/core) over the   *)
(* model relationship graph (app/utils/model_relationship_manager.py).     *)
(*                                                                         *)
(* Time is counted in ticks of the server clock (datetime.utcnow()); one   *)
(* second is TicksPerSecond ticks.  A DateTime column holds a naive        *)
(* datetime, modelled as its tick count; NULL is Null.                     *)
(***************************************************************************)
EXTENDS Integers, Sequences, FiniteSets, TLC

\* ---------------------------------------------------------------- bounds
MaxTime == 3            \* the clock runs over 0..MaxTime
TicksPerSecond == 2     \* clock resolution: ticks in one second
MaxRows == 2            \* rows ever inserted in the table of one model
MaxVal == 1             \* scalar payload values 1..MaxVal
MaxChildren == 2        \* items in one nested list of a payload
MaxCalls == 2           \* relationship calls in one behaviour
MaxKeys == 2            \* keys in a payload handed to validate_nested_data

\* NULL of a nullable column / None of an optional argument
Null == -1

Times == 0..MaxTime
Vals == 1..MaxVal
Ids == 1..MaxRows

\* ------------------------------------------------- timestamp strings
\* An updated_at string as a client sends it: ISO-8601 without offset
\* ("naive"), with a trailing Z ("utc"), unparseable ("bad"), or not
\* supplied at all ("none").
NoTs == [fmt |-> "none", t |-> 0]
BadTs == [fmt |-> "bad", t |-> 0]
NaiveTs(t) == [fmt |-> "naive", t |-> t]
UtcTs(t) == [fmt |-> "utc", t |-> t]

\* DefaultOptimisticLockValidator.parse_timestamp: datetime.fromisoformat
\* on the string (Z rewritten to +00:00); ValueError becomes HTTP 400.
\* A string without offset parses to a naive datetime, one with Z to an
\* aware datetime.
parse_timestamp(s) ==
    IF s.fmt = "bad"
    THEN [ok |-> FALSE, aware |-> FALSE, t |-> 0]
    ELSE [ok |-> TRUE, aware |-> (s.fmt = "utc"), t |-> s.t]

Abs(x) == IF x < 0 THEN 0 - x ELSE x

\* the tolerance of validate_optimistic_lock, in seconds
ToleranceSeconds == 1

\* mutant of the tolerance comparison: >= in place of >
ExceedsToleranceGe(d) == Abs(d) >= ToleranceSeconds * TicksPerSecond

\* abs((actual - expected).total_seconds()) > 1, d in ticks
ExceedsTolerance(d) == Abs(d) > ToleranceSeconds * TicksPerSecond

\* DefaultOptimisticLockValidator.validate_optimistic_lock: the outcome of
\* the call.  Subtracting a naive from an aware datetime (or the reverse)
\* raises TypeError in Python.
validate_optimistic_lock(expected, actual) ==
    LET e == parse_timestamp(expected) IN
    IF ~e.ok THEN "400"
    ELSE IF e.aware # actual.aware THEN "TypeError"
    ELSE IF ExceedsTolerance(actual.t - e.t) THEN "409"
    ELSE "ok"

\* ------------------------------------------------------------- state
VARIABLES
    now,        \* the latest reading of the server clock, datetime.utcnow()
    rows,       \* committed rows of each model's table
    nextId,     \* next autoincrement id of each table
    last,       \* the most recent repository call and its outcome
    accepted,   \* history: <<id, t0>> of every lock-checked update accepted so far
    vin,        \* pure functions: the arguments of the call
    vout,       \* pure functions: its outcome
    links,      \* committed rows of the junction tables
    req,        \* the model and nested data of the most recent relationship call
    ret,        \* the instance the most recent relationship call returned
    manager,    \* the global ModelRelationshipManager: nodes, edges, adjacency
    pc          \* calls that run concurrently: each call's position and locals

vars == <<now, rows, nextId, last, accepted, vin, vout, links, req, ret, manager, pc>>
relVars == <<links, req, ret>>

\* No call is under way.
NoCalls == <<>>

\* User is the model under app/models; Post and Tag are the models of the
\* relationship scenario (User.posts, Post.tags).
Models == {"User", "Post", "Tag"}
ScalarModels == {"User"}

\* BaseModel columns (id, created_at, updated_at, deleted_at), one scalar
\* column val standing for the model's own columns, and the foreign-key
\* columns that are set, as <<column, id>> pairs.
Row(i, v, c, u, d) ==
    [id |-> i, val |-> v, created_at |-> c, updated_at |-> u, deleted_at |-> d,
     fk |-> {}]

NoCall == [op |-> "none", id |-> 0, exp |-> NoTs, status |-> "none"]
Call(op, i, e, st) == [op |-> op, id |-> i, exp |-> e, status |-> st]

HasRow(tbl, i) == \E r \in tbl : r.id = i
RowOf(tbl, i) == CHOOSE r \in tbl : r.id = i

\* mutant of get_by_id: the deleted_at filter is dropped
GetByIdAny(tbl, i, include_deleted) ==
    {r \in tbl : r.id = i}

\* RepositoryImpl.get_by_id: the rows the query returns (none or one)
get_by_id(tbl, i, include_deleted) ==
    {r \in tbl : r.id = i /\ (include_deleted \/ r.deleted_at = Null)}

NoValidation == [expected |-> NoTs, actual |-> [aware |-> FALSE, t |-> 0]]

\* A payload: val is the scalar part (None when the key is absent), nested
\* the relationship keys in dict order, each with its list of payloads.
Payload(v, n) == [val |-> v, nested |-> n]
NoRequest == [model |-> "none", nested |-> <<>>, failAt |-> Null, sync_mode |-> "none"]
Request(m, n, f) == [model |-> m, nested |-> n, failAt |-> f, sync_mode |-> "none"]
\* A returned instance: loaded holds a <<relationship, id>> pair for every
\* related record the eager load found.
NoInstance == [found |-> FALSE, id |-> 0, loaded |-> {}]
Instance(i, l) == [found |-> TRUE, id |-> i, loaded |-> l]

\* --------------------------------------------------- relationship catalog
\* The declared relationships of the models: SQLAlchemy direction and
\* uselist, the foreign-key column of a one-to-many / many-to-one pair, the
\* secondary (junction) table with its two columns, and whether the
\* relationship's cascade option contains delete.
RelationshipList ==
    << [source |-> "User", name |-> "posts", target |-> "Post",
       direction |-> "ONETOMANY", uselist |-> TRUE, foreign_key |-> "user_id",
       secondary |-> "none", local_col |-> "", remote_col |-> "",
       cascade_delete |-> TRUE],
      [source |-> "Post", name |-> "user", target |-> "User",
       direction |-> "MANYTOONE", uselist |-> FALSE, foreign_key |-> "user_id",
       secondary |-> "none", local_col |-> "", remote_col |-> "",
       cascade_delete |-> FALSE],
      [source |-> "Post", name |-> "tags", target |-> "Tag",
       direction |-> "MANYTOMANY", uselist |-> TRUE, foreign_key |-> "",
       secondary |-> "post_tags", local_col |-> "post_id", remote_col |-> "tag_id",
       cascade_delete |-> FALSE],
      [source |-> "Tag", name |-> "posts", target |-> "Post",
       direction |-> "MANYTOMANY", uselist |-> TRUE, foreign_key |-> "",
       secondary |-> "post_tags", local_col |-> "tag_id", remote_col |-> "post_id",
       cascade_delete |-> FALSE] >>

Range(q) == {q[k] : k \in DOMAIN q}
Relationships == Range(RelationshipList)

RelsOf(model_name, rel_name) ==
    {r \in Relationships : r.source = model_name /\ r.name = rel_name}

\* mutant of get_application_type: the uselist flag is not looked at
get_application_type_by_direction(sqlalchemy_direction, uselist) ==
    CASE sqlalchemy_direction = "ONETOMANY" -> "one_to_many"
      [] sqlalchemy_direction = "MANYTOONE" -> "many_to_one"
      [] sqlalchemy_direction = "MANYTOMANY" -> "many_to_many"

\* RelationshipAdapter.get_application_type
get_application_type(sqlalchemy_direction, uselist) ==
    IF sqlalchemy_direction = "MANYTOONE" /\ ~uselist THEN "one_to_one"
    ELSE CASE sqlalchemy_direction = "ONETOMANY" -> "one_to_many"
           [] sqlalchemy_direction = "MANYTOONE" -> "many_to_one"
           [] sqlalchemy_direction = "MANYTOMANY" -> "many_to_many"

\* ModelNode.get_relationship_type / get_related_model ("none" is None)
get_relationship_type(model_name, rel_name) ==
    IF RelsOf(model_name, rel_name) = {} THEN "none"
    ELSE LET rel_prop == CHOOSE r \in RelsOf(model_name, rel_name) : TRUE
         IN get_application_type(rel_prop.direction, rel_prop.uselist)

get_related_model(model_name, rel_name) ==
    IF RelsOf(model_name, rel_name) = {} THEN "none"
    ELSE (CHOOSE r \in RelsOf(model_name, rel_name) : TRUE).target

\* ------------------------------------------------- relationship manager
\* RelationshipEdge, as _build_relationship_edges creates it from a
\* declared relationship
RelationshipEdge(r) ==
    [source_model |-> r.source, target_model |-> r.target,
     relationship_name |-> r.name,
     relationship_type |-> get_application_type(r.direction, r.uselist),
     cascade_delete |-> r.cascade_delete,
     cascade_soft_delete |-> TRUE]

\* ModelRelationshipManager.__init__: _nodes in registration order, _edges,
\* and the two defaultdict(list) adjacency lists (a key exists once a list
\* was appended to)
NewManager ==
    [nodes |-> <<>>, edges |-> <<>>,
     adjacency_list |-> [m \in {} |-> <<>>],
     reverse_adjacency_list |-> [m \in {} |-> <<>>],
     initialized |-> FALSE]

\* mutant of register_models: a model already registered is registered
\* again
register_models_again(nodes, models) == nodes \o models

\* ModelRelationshipManager._register_model, for each model of the list
RECURSIVE register_models(_, _)
register_models(nodes, models) ==
    IF models = <<>> THEN nodes
    ELSE register_models(IF Head(models) \in Range(nodes) THEN nodes
                         ELSE Append(nodes, Head(models)),
                         Tail(models))

\* ModelRelationshipManager._build_relationship_edges: the edges appended,
\* node by node in dict order, relationship by relationship; a relationship
\* whose target is not registered is skipped. relationships is the list of
\* the relationships the model classes declare.
RECURSIVE build_relationship_edges(_, _, _)
build_relationship_edges(nodes, todo, relationships) ==
    IF todo = <<>> THEN <<>>
    ELSE LET own == SelectSeq(relationships,
                              LAMBDA r : r.source = Head(todo)
                                         /\ r.target \in Range(nodes))
         IN [k \in 1..Len(own) |-> RelationshipEdge(own[k])]
            \o build_relationship_edges(nodes, Tail(todo), relationships)

\* ModelRelationshipManager._build_adjacency_lists: every edge is appended
\* to the list of its source model, and to the reverse list of its target
\* model
build_adjacency_list(adjacency, edges) ==
    [m \in DOMAIN adjacency \cup {e.source_model : e \in Range(edges)} |->
        (IF m \in DOMAIN adjacency THEN adjacency[m] ELSE <<>>)
        \o SelectSeq(edges, LAMBDA e : e.source_model = m)]

build_reverse_adjacency_list(adjacency, edges) ==
    [m \in DOMAIN adjacency \cup {e.target_model : e \in Range(edges)} |->
        (IF m \in DOMAIN adjacency THEN adjacency[m] ELSE <<>>)
        \o SelectSeq(edges, LAMBDA e : e.target_model = m)]

\* mutant of initialize: the early return of an initialized manager is
\* dropped
initialize_again(g, models, relationships) ==
    LET nodes == register_models(g.nodes, models)
        edges == g.edges \o build_relationship_edges(nodes, nodes, relationships)
    IN [nodes |-> nodes, edges |-> edges,
        adjacency_list |-> build_adjacency_list(g.adjacency_list, edges),
        reverse_adjacency_list |->
            build_reverse_adjacency_list(g.reverse_adjacency_list, edges),
        initialized |-> TRUE]

\* ModelRelationshipManager.initialize
initialize(g, models, relationships) ==
    IF g.initialized THEN g
    ELSE LET nodes == register_models(g.nodes, models)
             edges == g.edges \o build_relationship_edges(nodes, nodes, relationships)
         IN [nodes |-> nodes, edges |-> edges,
             adjacency_list |-> build_adjacency_list(g.adjacency_list, edges),
             reverse_adjacency_list |->
                 build_reverse_adjacency_list(g.reverse_adjacency_list, edges),
             initialized |-> TRUE]

\* ModelRelationshipManager.is_initialized
is_initialized(g) == g.initialized

\* initialize_model_relationships() at application start-up: the global
\* manager, initialized with the discovered models
CatalogManager == initialize(NewManager, <<"User", "Post", "Tag">>, RelationshipList)

Edges == Range(CatalogManager.edges)

\* ModelRelationshipManager.get_outgoing_edges / get_incoming_edges
get_outgoing_edges(g, model_name) ==
    IF model_name \in DOMAIN g.adjacency_list THEN g.adjacency_list[model_name]
    ELSE <<>>

get_incoming_edges(g, model_name) ==
    IF model_name \in DOMAIN g.reverse_adjacency_list
    THEN g.reverse_adjacency_list[model_name]
    ELSE <<>>

\* The result of find_path: found FALSE is None
NoPath == [found |-> FALSE, path |-> <<>>]
Path(edges) == [found |-> TRUE, path |-> edges]

\* find_path, the for loop over the outgoing edges of the dequeued model:
\* the path when an edge reaches the target, else the queue and the
\* visited set after the loop
RECURSIVE visit_edges(_, _, _, _, _)
visit_edges(edges, target_model, path, queue, visited) ==
    IF edges = <<>>
    THEN [found |-> FALSE, path |-> <<>>, queue |-> queue, visited |-> visited]
    ELSE LET edge == Head(edges)
             next_model == edge.target_model
         IN IF next_model = target_model
            THEN [found |-> TRUE, path |-> Append(path, edge),
                  queue |-> queue, visited |-> visited]
            ELSE visit_edges(Tail(edges), target_model, path,
                             IF next_model \notin visited
                             THEN Append(queue, [model |-> next_model,
                                                 path |-> Append(path, edge)])
                             ELSE queue,
                             visited \cup {next_model})

RECURSIVE bfs(_, _, _, _, _)
bfs_step(g, target_model, max_depth, r) ==
    IF r.found THEN Path(r.path)
    ELSE bfs(g, target_model, max_depth, r.queue, r.visited)

\* mutant of bfs: the loop runs while the path of the queue's head has at
\* most max_depth edges
bfs_one_deeper(g, target_model, max_depth, queue, visited) ==
    IF queue = <<>> \/ ~(Len(Head(queue).path) <= max_depth) THEN NoPath
    ELSE bfs_step(g, target_model, max_depth,
                  visit_edges(get_outgoing_edges(g, Head(queue).model), target_model,
                              Head(queue).path, Tail(queue), visited))

\* find_path, the while loop: while queue and len(queue[0][1]) < max_depth
bfs(g, target_model, max_depth, queue, visited) ==
    IF queue = <<>> \/ ~(Len(Head(queue).path) < max_depth) THEN NoPath
    ELSE bfs_step(g, target_model, max_depth,
                  visit_edges(get_outgoing_edges(g, Head(queue).model), target_model,
                              Head(queue).path, Tail(queue), visited))

\* ModelRelationshipManager.find_path
find_path(g, source_model, target_model, max_depth) ==
    IF source_model \notin Range(g.nodes) \/ target_model \notin Range(g.nodes)
    THEN NoPath
    ELSE IF source_model = target_model THEN Path(<<>>)
    ELSE bfs(g, target_model, max_depth,
             <<[model |-> source_model, path |-> <<>>]>>, {source_model})

\* mutant of index: the position of the root of the path
index_of_root(q, x) == CHOOSE k \in 1..Len(q) : \A j \in 1..Len(q) : k <= j

\* list.index: the first position of x in q
index(q, x) == CHOOSE k \in 1..Len(q) : q[k] = x /\ \A j \in 1..(k - 1) : q[j] # x

RECURSIVE dfs(_, _, _, _)
RECURSIVE dfs_edges(_, _, _, _)

\* mutant of dfs: the visited test comes before the rec_stack test
dfs_visited_first(g, st, node, path) ==
    IF node \in st.visited THEN st
    ELSE IF node \in st.rec_stack
    THEN [st EXCEPT !.cycles =
              Append(@, Append(SubSeq(path, index(path, node), Len(path)), node))]
    ELSE LET after == dfs_edges(g, [st EXCEPT !.visited = @ \cup {node},
                                              !.rec_stack = @ \cup {node}],
                                get_outgoing_edges(g, node), Append(path, node))
         IN [after EXCEPT !.rec_stack = @ \ {node}]

\* detect_cycles, the inner dfs(node, path): st holds cycles, visited and
\* rec_stack
dfs(g, st, node, path) ==
    IF node \in st.rec_stack
    THEN [st EXCEPT !.cycles =
              Append(@, Append(SubSeq(path, index(path, node), Len(path)), node))]
    ELSE IF node \in st.visited THEN st
    ELSE LET after == dfs_edges(g, [st EXCEPT !.visited = @ \cup {node},
                                              !.rec_stack = @ \cup {node}],
                                get_outgoing_edges(g, node), Append(path, node))
         IN [after EXCEPT !.rec_stack = @ \ {node}]

\* detect_cycles, the for loop of dfs over the outgoing edges
dfs_edges(g, st, edges, path) ==
    IF edges = <<>> THEN st
    ELSE dfs_edges(g, dfs(g, st, Head(edges).target_model, path), Tail(edges), path)

\* detect_cycles, the outer loop over the nodes
RECURSIVE dfs_nodes(_, _, _)
dfs_nodes(g, st, nodes) ==
    IF nodes = <<>> THEN st
    ELSE dfs_nodes(g, IF Head(nodes) \notin st.visited
                      THEN dfs(g, st, Head(nodes), <<>>) ELSE st,
                   Tail(nodes))

\* ModelRelationshipManager.detect_cycles
detect_cycles(g) ==
    dfs_nodes(g, [cycles |-> <<>>, visited |-> {}, rec_stack |-> {}], g.nodes).cycles

RECURSIVE collect_dependencies(_, _, _)
RECURSIVE collect_dependencies_edges(_, _, _)

\* mutant of collect_dependencies_edges: a target already visited is not
\* added
collect_dependencies_edges_unvisited(g, st, edges) ==
    IF edges = <<>> THEN st
    ELSE LET target == Head(edges).target_model
         IN collect_dependencies_edges(
                g,
                collect_dependencies(
                    g, [st EXCEPT !.found = IF target \in st.visited THEN @
                                            ELSE @ \cup {target}], target),
                Tail(edges))

\* get_model_dependencies, the for loop of collect_dependencies: the target
\* is added, then visited
collect_dependencies_edges(g, st, edges) ==
    IF edges = <<>> THEN st
    ELSE LET target == Head(edges).target_model
         IN collect_dependencies_edges(
                g,
                collect_dependencies(g, [st EXCEPT !.found = @ \cup {target}], target),
                Tail(edges))

\* get_model_dependencies, the inner collect_dependencies(node)
collect_dependencies(g, st, node) ==
    IF node \in st.visited THEN st
    ELSE collect_dependencies_edges(g, [st EXCEPT !.visited = @ \cup {node}],
                                    get_outgoing_edges(g, node))

\* ModelRelationshipManager.get_model_dependencies
get_model_dependencies(g, model_name) ==
    collect_dependencies(g, [found |-> {}, visited |-> {}], model_name).found

RECURSIVE collect_dependents(_, _, _)
RECURSIVE collect_dependents_edges(_, _, _)

\* get_model_dependents, the for loop of collect_dependents: the source is
\* added, then visited
collect_dependents_edges(g, st, edges) ==
    IF edges = <<>> THEN st
    ELSE LET source == Head(edges).source_model
         IN collect_dependents_edges(
                g,
                collect_dependents(g, [st EXCEPT !.found = @ \cup {source}], source),
                Tail(edges))

\* get_model_dependents, the inner collect_dependents(node)
collect_dependents(g, st, node) ==
    IF node \in st.visited THEN st
    ELSE collect_dependents_edges(g, [st EXCEPT !.visited = @ \cup {node}],
                                  get_incoming_edges(g, node))

\* ModelRelationshipManager.get_model_dependents
get_model_dependents(g, model_name) ==
    collect_dependents(g, [found |-> {}, visited |-> {}], model_name).found

\* A key of a payload with its value: kind is the type of the value
\* (list, dict, scalar or null), data the items of a list.
Entry(key, kind, data) == [rel |-> key, kind |-> kind, data |-> data]

\* mutant of validate_nested_data: a relationship key is dropped only
\* when its value is None
validate_nested_data_keeping_scalars(model_name, data) ==
    [ok |-> model_name \in Models,
     main |-> [val |-> data.val,
               keys |-> SelectSeq(data.nested,
                                  LAMBDA e : RelsOf(model_name, e.rel) = {}
                                             \/ e.kind = "scalar")],
     nested |-> SelectSeq(data.nested,
                          LAMBDA e : /\ RelsOf(model_name, e.rel) # {}
                                     /\ e.kind \in {"dict", "list"})]

\* ModelRelationshipManager.validate_nested_data: a model that is not
\* registered raises ValueError (ok is FALSE); a key that names a
\* relationship of the model is nested data when its value is a dict or
\* a list and is dropped otherwise; every other key is main data (val is
\* the model's scalar column, keys the other keys, in dict order).
validate_nested_data(model_name, data) ==
    IF model_name \notin Models
    THEN [ok |-> FALSE, main |-> [val |-> Null, keys |-> <<>>], nested |-> <<>>]
    ELSE [ok |-> TRUE,
          main |-> [val |-> data.val,
                    keys |-> SelectSeq(data.nested,
                                       LAMBDA e : RelsOf(model_name, e.rel) = {})],
          nested |-> SelectSeq(data.nested,
                               LAMBDA e : /\ RelsOf(model_name, e.rel) # {}
                                          /\ e.kind \in {"dict", "list"})]

\* mutant of the foreign-key name: one fixed name for every parent model
ParentIdFieldPlain(model_name) == "parent_id"

\* f"{self.model_name.lower()}_id": the column a handler writes the
\* parent's id to
ParentIdField(model_name) ==
    CASE model_name = "User" -> "user_id"
      [] model_name = "Post" -> "post_id"
      [] model_name = "Tag" -> "tag_id"

\* RepositoryImpl._get_junction_table ("none" is None)
get_junction_table(model_name, rel_name) ==
    IF model_name = "Post" /\ rel_name = "tags" THEN "post_tags" ELSE "none"

\* A row of a junction table: its two <<column, id>> values.
Link(table, a, b) == [table |-> table, cols |-> {a, b}]

\* The records a relationship loads for the record i of its source model
\* (selectinload): by foreign key, or through the secondary table.
Related(tbls, lnks, r, i) ==
    CASE r.direction = "ONETOMANY" ->
            {c.id : c \in {x \in tbls[r.target] : <<r.foreign_key, i>> \in x.fk}}
      [] r.direction = "MANYTOONE" ->
            {p.id : p \in {x \in tbls[r.target] :
                \E c \in tbls[r.source] : c.id = i /\ <<r.foreign_key, x.id>> \in c.fk}}
      [] r.direction = "MANYTOMANY" ->
            {t.id : t \in {x \in tbls[r.target] :
                Link(r.secondary, <<r.local_col, i>>, <<r.remote_col, x.id>>) \in lnks}}

\* RepositoryImpl.get_by_id_with_relations with relations=None: the
\* active record with every relationship of the model loaded.
get_by_id_with_relations(tbls, lnks, model_name, i) ==
    IF get_by_id(tbls[model_name], i, FALSE) = {} THEN NoInstance
    ELSE Instance(i, UNION {{<<r.name, j>> : j \in Related(tbls, lnks, r, i)} :
                            r \in {x \in Relationships : x.source = model_name}})

Init ==
    /\ now = 0
    /\ rows = [m \in Models |-> {}]
    /\ nextId = [m \in Models |-> 1]
    /\ last = NoCall
    /\ accepted = {}
    /\ vin = NoValidation
    /\ vout = "none"
    /\ links = {}
    /\ req = NoRequest
    /\ ret = NoInstance
    /\ manager = CatalogManager
    /\ pc = NoCalls

\* ------------------------------------------------------------ actions
\* datetime.utcnow(): a reading of the server clock, later than every
\* earlier reading (microsecond resolution, one reading per awaited
\* database round trip).
UtcNow == now < MaxTime /\ now' = now + 1

\* Replace row r of table m by r2 (an UPDATE of one row, committed).
Put(m, r, r2) == rows' = [rows EXCEPT ![m] = (@ \ {r}) \cup {r2}]

PayloadVals == Vals \cup {Null}
ExpectedTs == {NoTs, BadTs} \cup {NaiveTs(t) : t \in Times}

\* ------------------------------------------------- the session of a call
\* rows, links and nextId as the session sees them (flushed, uncommitted),
\* crows and clinks as committed; t is the call's reading of the clock.
\* budget counts the statements down to the one that raises (Null: none
\* raises), count the statements sent, failed whether one has raised: an
\* exception leaves the handler, so nothing after it takes effect.
Begin(failAt) ==
    [rows |-> rows, links |-> links, nextId |-> nextId,
     crows |-> rows, clinks |-> links, t |-> now + 1,
     budget |-> failAt, count |-> 0, failed |-> FALSE]

Raise(s) == [s EXCEPT !.failed = TRUE, !.count = @ + 1]
Sent(s) == [s EXCEPT !.budget = IF @ = Null THEN Null ELSE @ - 1, !.count = @ + 1]

NewRow(s, v) == Row(0, v, s.t, s.t, Null)

\* mutant of flush: the INSERT is committed at once
FlushCommitting(s, m, r) ==
    IF s.failed THEN s
    ELSE IF s.budget = 1 THEN Raise(s)
    ELSE [Sent(s) EXCEPT !.rows[m] = @ \cup {[r EXCEPT !.id = s.nextId[m]]},
                         !.crows[m] = @ \cup {[r EXCEPT !.id = s.nextId[m]]},
                         !.nextId[m] = @ + 1]

\* db.add(instance); await db.flush(): the INSERT is sent inside the open
\* transaction and the autoincrement id is assigned.
Flush(s, m, r) ==
    IF s.failed THEN s
    ELSE IF s.budget = 1 THEN Raise(s)
    ELSE [Sent(s) EXCEPT !.rows[m] = @ \cup {[r EXCEPT !.id = s.nextId[m]]},
                         !.nextId[m] = @ + 1]

\* await db.execute(statement): an UPDATE, INSERT or DELETE inside the
\* open transaction that leaves the tables as newRows and newLinks.
Execute(s, newRows, newLinks) ==
    IF s.failed THEN s
    ELSE IF s.budget = 1 THEN Raise(s)
    ELSE [Sent(s) EXCEPT !.rows = newRows, !.links = newLinks]

\* await db.commit(); a session that is closed after an exception
\* (AsyncDBSession.__aexit__) commits nothing.
Commit(s) == IF s.failed THEN s ELSE [s EXCEPT !.crows = s.rows, !.clinks = s.links]

RECURSIVE handle_nested_relationships(_, _, _, _)
RECURSIVE handle_one_to_many(_, _, _, _, _, _)
RECURSIVE create_related(_, _, _, _)
RECURSIVE insert_links(_, _, _, _, _, _)

\* RepositoryImpl._handle_child_nested_relationships: a repository of the
\* child model handles the child's nested data (none: nothing to do).
handle_child_nested_relationships(s, child_id, nested_data, child_model) ==
    handle_nested_relationships(s, child_model, child_id, nested_data)

\* RepositoryImpl._handle_one_to_many: per child, the foreign key to the
\* parent is set, the child is flushed and its own nested data handled.
handle_one_to_many(s, model_name, parent_id, rel_name, children_data, child_model) ==
    IF children_data = <<>> \/ s.failed THEN s
    ELSE LET child == validate_nested_data(child_model, Head(children_data))
             child_instance == [NewRow(s, child.main.val) EXCEPT
                                  !.fk = {<<ParentIdField(model_name), parent_id>>}]
         IN handle_one_to_many(
                handle_child_nested_relationships(
                    Flush(s, child_model, child_instance),
                    s.nextId[child_model], child.nested, child_model),
                model_name, parent_id, rel_name, Tail(children_data), child_model)

\* The first loop of _handle_many_to_many: the related instances are
\* created; ids collects their ids.
create_related(s, related_model, related_data, ids) ==
    IF related_data = <<>> \/ s.failed THEN [s |-> s, ids |-> ids]
    ELSE LET item == validate_nested_data(related_model, Head(related_data))
         IN create_related(
                handle_child_nested_relationships(
                    Flush(s, related_model, NewRow(s, item.main.val)),
                    s.nextId[related_model], item.nested, related_model),
                related_model, Tail(related_data), Append(ids, s.nextId[related_model]))

\* The second loop of _handle_many_to_many: one junction row per related
\* instance.
insert_links(s, junction_table, model_name, instance_id, related_model, ids) ==
    IF ids = <<>> \/ s.failed THEN s
    ELSE LET junction_data == Link(junction_table,
                                   <<ParentIdField(model_name), instance_id>>,
                                   <<ParentIdField(related_model), Head(ids)>>)
         IN insert_links(Execute(s, s.rows, s.links \cup {junction_data}),
                         junction_table, model_name, instance_id, related_model, Tail(ids))

\* The end of _handle_many_to_many: the created instances are linked when
\* the relationship has a junction table.
link_related(created, junction_table, model_name, instance_id, related_model) ==
    IF junction_table = "none" THEN created.s
    ELSE insert_links(created.s, junction_table, model_name, instance_id,
                      related_model, created.ids)

\* RepositoryImpl._handle_many_to_many
handle_many_to_many(s, model_name, instance_id, rel_name, related_data, related_model) ==
    link_related(create_related(s, related_model, related_data, <<>>),
                 get_junction_table(model_name, rel_name),
                 model_name, instance_id, related_model)

\* RepositoryImpl._handle_many_to_one: the parent instance is created and
\* flushed, then its id is set as the child's foreign key (a pending
\* change of the child, written with the commit), then the parent's own
\* nested data is handled.
handle_many_to_one(s, model_name, child_id, rel_name, parent_data, parent_model) ==
    IF s.failed THEN s
    ELSE LET parent == validate_nested_data(parent_model, parent_data)
             flushed == Flush(s, parent_model, NewRow(s, parent.main.val))
             parent_id_field == ParentIdField(parent_model)
         IN IF flushed.failed THEN flushed
            ELSE handle_child_nested_relationships(
                     [flushed EXCEPT !.rows[model_name] =
                         {IF x.id = child_id
                          THEN [x EXCEPT !.fk = {pair \in @ : pair[1] # parent_id_field}
                                                \cup {<<parent_id_field,
                                                        s.nextId[parent_model]>>}]
                          ELSE x : x \in @}],
                     s.nextId[parent_model], parent.nested, parent_model)

\* RepositoryImpl._handle_one_to_one: the related instance is constructed
\* with the instance's id under f"{self.model_name.lower()}_id" and
\* flushed, then its nested data is handled.  User.__init__ (user.py
\* 30-36) drops a keyword that is no attribute of the model, so the key
\* is kept only where the related model has that foreign-key column.
handle_one_to_one(s, model_name, instance_id, rel_name, related_data, related_model) ==
    IF s.failed THEN s
    ELSE LET related == validate_nested_data(related_model, related_data)
             instance_id_field == ParentIdField(model_name)
             has_column == \E r \in Relationships : /\ r.source = related_model
                                                    /\ r.direction = "MANYTOONE"
                                                    /\ r.foreign_key = instance_id_field
             related_instance == [NewRow(s, related.main.val) EXCEPT
                                    !.fk = IF has_column
                                           THEN {<<instance_id_field, instance_id>>}
                                           ELSE {}]
         IN handle_child_nested_relationships(
                Flush(s, related_model, related_instance),
                s.nextId[related_model], related.nested, related_model)

\* RepositoryImpl._handle_nested_relationships.  The payloads of this
\* model nest one-to-many, one-to-one and many-to-many relationships; a
\* many-to-one relationship without uselist is classified one-to-one.
handle_nested_relationships(s, model_name, instance_id, nested_data) ==
    IF nested_data = <<>> \/ s.failed THEN s
    ELSE LET rel_name == Head(nested_data).rel
             rel_data == Head(nested_data).data
             rel_type == get_relationship_type(model_name, rel_name)
             related_model == get_related_model(model_name, rel_name)
         IN handle_nested_relationships(
                IF rel_type = "none" \/ related_model = "none" THEN s
                ELSE CASE rel_type = "one_to_many" ->
                            handle_one_to_many(s, model_name, instance_id, rel_name,
                                               rel_data, related_model)
                       [] rel_type = "many_to_one" ->
                            handle_many_to_one(s, model_name, instance_id, rel_name,
                                               Head(rel_data), related_model)
                       [] rel_type = "one_to_one" ->
                            handle_one_to_one(s, model_name, instance_id, rel_name,
                                              Head(rel_data), related_model)
                       [] rel_type = "many_to_many" ->
                            handle_many_to_many(s, model_name, instance_id, rel_name,
                                                rel_data, related_model),
                model_name, instance_id, Tail(nested_data))

\* mutant of create_with_relations: the nested data is handled before the
\* main instance is flushed, with the id the instance has then
create_with_relations_before_flush(m, obj_in, failAt) ==
    LET data == validate_nested_data(m, obj_in)
        s0 == Begin(failAt)
        instance == NewRow(s0, data.main.val)
        nested == handle_nested_relationships(s0, m, instance.id, data.nested)
    IN Commit(Flush(nested, m, instance))

\* RepositoryImpl.create_with_relations up to and including the commit:
\* the session when the handler returns or raises.
create_with_relations(m, obj_in, failAt) ==
    LET data == validate_nested_data(m, obj_in)
        s0 == Begin(failAt)
    IN Commit(handle_nested_relationships(Flush(s0, m, NewRow(s0, data.main.val)),
                                          m, s0.nextId[m], data.nested))

\* The statement that raises: none, or the k-th of the statements the call
\* sends; s is the run of the call in which no statement raises.
FailPoints(s) == {Null} \cup (1..s.count)

\* The run s of a call with failing statement failAt is one the model
\* admits: the statement was reached, and every table stays within
\* MaxRows rows ever inserted.
Admitted(s, failAt) ==
    /\ failAt = Null \/ s.failed
    /\ \A m \in Models : s.nextId[m] <= MaxRows + 1

\* What a call that ran the session s leaves behind.  A call that raises
\* leaves the committed tables as they are; the ids it drew are handed
\* out again.  A call that returns reads the instance back.
Outcome(op, m, i, exp, obj_in, sync_mode, failAt, s) ==
    /\ Admitted(s, failAt)
    /\ rows' = s.crows
    /\ links' = s.clinks
    /\ IF s.failed
       THEN /\ last' = Call(op, i, exp, "failed")
            /\ req' = Request(m, <<>>, failAt)
            /\ ret' = NoInstance
            /\ UNCHANGED nextId
       ELSE /\ last' = Call(op, i, exp, "ok")
            /\ req' = [Request(m, obj_in.nested, failAt) EXCEPT !.sync_mode = sync_mode]
            /\ ret' = get_by_id_with_relations(s.crows, s.clinks, m, i)
            /\ nextId' = s.nextId

\* What the committed session s of a call that cannot fail leaves behind,
\* the ids it drew included; every table stays within MaxRows rows ever
\* inserted.
Persist(s) ==
    /\ \A m \in Models : s.nextId[m] <= MaxRows + 1
    /\ rows' = s.crows
    /\ links' = s.clinks
    /\ nextId' = s.nextId

\* RepositoryImpl.create_with_relations as one step.
CreateWithRelations(m, obj_in) ==
    /\ UtcNow
    /\ UNCHANGED <<accepted, vin, vout, manager, pc>>
    /\ \E failAt \in FailPoints(create_with_relations(m, obj_in, Null)) :
         Outcome("create_with_relations", m, nextId[m], NoTs, obj_in, "none", failAt,
                 create_with_relations(m, obj_in, failAt))

\* mutant of create: the nested data is processed as create_with_relations
\* processes it
create_processing_nested(m, obj_in) ==
    create_with_relations(m, obj_in, Null)

\* RepositoryImpl.create up to and including the commit: the payload is
\* split, the nested part is only logged, the main part is inserted;
\* created_at and updated_at take the column default.
create(m, obj_in) ==
    LET s0 == Begin(Null)
    IN Commit(Flush(s0, m, NewRow(s0, validate_nested_data(m, obj_in).main.val)))

\* RepositoryImpl.create as one step.  The payloads carry no scalar value
\* (the value column is written by updates only).
Create(m, obj_in) ==
    /\ UtcNow
    /\ Persist(create(m, obj_in))
    /\ last' = Call("create", nextId[m], NoTs, "ok")
    /\ req' = Request(m, obj_in.nested, Null)
    /\ ret' = NoInstance
    /\ UNCHANGED <<accepted, vin, vout, manager, pc>>

\* mutant of the conditional UPDATE: the updated_at condition is missing
LockMatchedIdOnly(tbl, i, exp) ==
    {r \in tbl : r.id = i}

\* The rows matched by the UPDATE of update_with_optimistic_lock:
\* WHERE id = :id [AND updated_at = :expected].  No deleted_at filter.
LockMatched(tbl, i, exp) ==
    {r \in tbl : r.id = i /\ (exp.fmt = "none" \/ r.updated_at = parse_timestamp(exp).t)}

\* RepositoryImpl.update_with_optimistic_lock.  The payload's updated_at
\* is popped and replaced by utcnow(); v is the payload's scalar value.
\* Outcome: 400 (unparseable expected_updated_at), 404 / 409 (no row
\* matched), ok (one row updated and committed).
UpdateWithOptimisticLock(m, i, exp) ==
    /\ UNCHANGED <<nextId, vin, vout, links, req, ret, manager, pc>>
    /\ IF exp.fmt # "none" /\ ~parse_timestamp(exp).ok
       THEN /\ last' = Call("uwol", i, exp, "400")
            /\ UNCHANGED <<now, rows, accepted>>
       ELSE LET hit == LockMatched(rows[m], i, exp) IN
            IF hit = {}
            THEN /\ last' = Call("uwol", i, exp,
                                 IF get_by_id(rows[m], i, FALSE) = {} THEN "404" ELSE "409")
                 /\ UNCHANGED <<now, rows, accepted>>
            ELSE /\ UtcNow
                 /\ \E v \in PayloadVals :
                      rows' = [rows EXCEPT ![m] =
                        (@ \ hit) \cup {[r EXCEPT !.val = v, !.updated_at = now'] : r \in hit}]
                 /\ last' = Call("uwol", i, exp, "ok")
                 /\ accepted' = IF exp.fmt = "naive"
                                THEN accepted \cup {<<i, exp.t>>} ELSE accepted

\* mutant of _delete_existing_children: the existing children are kept
delete_existing_children_kept(s, model_name, parent_id, rel_name) == s

\* RepositoryImpl._delete_existing_children: every child row that holds
\* the parent's id is soft-deleted by one UPDATE (which fires updated_at's
\* onupdate); every model has deleted_at.
delete_existing_children(s, model_name, parent_id, rel_name) ==
    LET related_model == get_related_model(model_name, rel_name)
        mine(x) == <<ParentIdField(model_name), parent_id>> \in x.fk
    IN IF related_model = "none" \/ s.failed THEN s
       ELSE Execute(s,
                [s.rows EXCEPT ![related_model] =
                    {IF mine(x) THEN [x EXCEPT !.deleted_at = s.t, !.updated_at = s.t]
                     ELSE x : x \in @}],
                s.links)

\* RepositoryImpl._update_one_to_many (_merge_one_to_many does nothing)
update_one_to_many(s, model_name, parent_id, rel_name, children_data, child_model, sync_mode) ==
    LET cleared == IF sync_mode = "replace"
                   THEN delete_existing_children(s, model_name, parent_id, rel_name)
                   ELSE s
    IN IF sync_mode \in {"replace", "add"}
       THEN handle_one_to_many(cleared, model_name, parent_id, rel_name,
                               children_data, child_model)
       ELSE s

\* RepositoryImpl._clear_many_to_many_relationships
clear_many_to_many_relationships(s, model_name, instance_id, rel_name) ==
    LET junction_table == get_junction_table(model_name, rel_name)
    IN IF junction_table = "none" \/ s.failed THEN s
       ELSE Execute(s, s.rows,
                {l \in s.links : ~(/\ l.table = junction_table
                                   /\ <<ParentIdField(model_name), instance_id>> \in l.cols)})

\* RepositoryImpl._update_many_to_many (_merge_many_to_many does nothing)
update_many_to_many(s, model_name, instance_id, rel_name, related_data, related_model, sync_mode) ==
    LET cleared == IF sync_mode = "replace"
                   THEN clear_many_to_many_relationships(s, model_name, instance_id, rel_name)
                   ELSE s
    IN IF sync_mode \in {"replace", "add"}
       THEN handle_many_to_many(cleared, model_name, instance_id, rel_name,
                                related_data, related_model)
       ELSE s

\* RepositoryImpl._handle_nested_relationships_update
RECURSIVE handle_nested_relationships_update(_, _, _, _, _)
handle_nested_relationships_update(s, model_name, instance_id, nested_data, sync_mode) ==
    IF nested_data = <<>> \/ s.failed THEN s
    ELSE LET rel_name == Head(nested_data).rel
             rel_data == Head(nested_data).data
             rel_type == get_relationship_type(model_name, rel_name)
             related_model == get_related_model(model_name, rel_name)
         IN handle_nested_relationships_update(
                IF rel_type = "none" \/ related_model = "none" THEN s
                ELSE CASE rel_type = "one_to_many" ->
                            update_one_to_many(s, model_name, instance_id, rel_name,
                                               rel_data, related_model, sync_mode)
                       [] rel_type = "many_to_many" ->
                            update_many_to_many(s, model_name, instance_id, rel_name,
                                                rel_data, related_model, sync_mode),
                model_name, instance_id, Tail(nested_data), sync_mode)

\* existing_record's pending changes: the non-None main fields and
\* updated_at = utcnow(), written with the commit.
set_main_fields(s, m, i, main_data) ==
    IF s.failed THEN s
    ELSE [s EXCEPT !.rows[m] =
            {IF x.id = i
             THEN [x EXCEPT !.val = IF main_data = Null THEN @ ELSE main_data,
                            !.updated_at = s.t]
             ELSE x : x \in @}]

\* RepositoryImpl.update_with_optimistic_lock_and_relations from the
\* update of the main fields to the commit, for the record with id i that
\* passed the lock check: the nested data is handled in replace mode
\* whatever sync_mode says.
update_main_and_relations(m, i, obj_in, sync_mode, failAt) ==
    LET data == validate_nested_data(m, obj_in)
    IN Commit(set_main_fields(
                  handle_nested_relationships_update(Begin(failAt), m, i, data.nested, "replace"),
                  m, i, data.main.val))

\* RepositoryImpl.update_with_optimistic_lock_and_relations.  exp is the
\* payload's updated_at.  Returns None ("none") when no active record has
\* the id; 400 for an unparseable updated_at; 409 when the stored
\* updated_at is not equal to the parsed one (a naive and an aware
\* datetime are never equal).
UpdateWithOptimisticLockAndRelations(m, i, exp, obj_in, sync_mode) ==
    /\ UNCHANGED <<accepted, vin, vout, manager, pc>>
    /\ LET found == get_by_id(rows[m], i, FALSE)
           e == parse_timestamp(exp)
           refused(st) == /\ last' = Call("uwolar", i, exp, st)
                          /\ req' = Request(m, <<>>, Null)
                          /\ ret' = NoInstance
                          /\ UNCHANGED <<now, rows, nextId, links>>
       IN IF found = {} THEN refused("none")
          ELSE IF exp.fmt # "none" /\ ~e.ok THEN refused("400")
          ELSE IF exp.fmt # "none" /\ (e.aware \/ RowOf(found, i).updated_at # e.t)
          THEN refused("409")
          ELSE /\ UtcNow
               /\ \E failAt \in FailPoints(update_main_and_relations(m, i, obj_in,
                                                                      sync_mode, Null)) :
                    Outcome("uwolar", m, i, exp, obj_in, sync_mode, failAt,
                            update_main_and_relations(m, i, obj_in, sync_mode, failAt))

\* mutant of soft_delete: the UPDATE has no id condition
SoftDeleteEveryRow(m, i) ==
    /\ UNCHANGED <<nextId, accepted, vin, vout, links, req, ret, manager, pc>>
    /\ IF ~HasRow(rows[m], i)
       THEN /\ last' = Call("soft_delete", i, NoTs, "none")
            /\ UNCHANGED <<now, rows>>
       ELSE /\ UtcNow
            /\ rows' = [rows EXCEPT ![m] =
                          {[r EXCEPT !.deleted_at = now', !.updated_at = now'] : r \in @}]
            /\ last' = Call("soft_delete", i, NoTs, "ok")

\* RepositoryImpl.soft_delete: deleted_at = utcnow() on the row with the
\* id, soft-deleted or not; the UPDATE fires updated_at's onupdate.
SoftDelete(m, i) ==
    /\ UNCHANGED <<nextId, accepted, vin, vout, links, req, ret, manager, pc>>
    /\ IF ~HasRow(rows[m], i)
       THEN /\ last' = Call("soft_delete", i, NoTs, "none")
            /\ UNCHANGED <<now, rows>>
       ELSE /\ UtcNow
            /\ Put(m, RowOf(rows[m], i),
                   [RowOf(rows[m], i) EXCEPT !.deleted_at = now', !.updated_at = now'])
            /\ last' = Call("soft_delete", i, NoTs, "ok")

\* RepositoryImpl.restore: deleted_at = None; an UPDATE (and updated_at's
\* onupdate) only when the attribute changes.
Restore(m, i) ==
    /\ UNCHANGED <<nextId, accepted, vin, vout, links, req, ret, manager, pc>>
    /\ IF ~HasRow(rows[m], i)
       THEN /\ last' = Call("restore", i, NoTs, "none")
            /\ UNCHANGED <<now, rows>>
       ELSE IF RowOf(rows[m], i).deleted_at = Null
       THEN /\ last' = Call("restore", i, NoTs, "ok")
            /\ UNCHANGED <<now, rows>>
       ELSE /\ UtcNow
            /\ Put(m, RowOf(rows[m], i),
                   [RowOf(rows[m], i) EXCEPT !.deleted_at = Null, !.updated_at = now'])
            /\ last' = Call("restore", i, NoTs, "ok")

\* The value a payload gives for a column in its own keys (Null when it
\* has no such key).
RECURSIVE KeyValue(_, _)
KeyValue(keys, column) ==
    IF keys = <<>> THEN Null
    ELSE IF Head(keys).rel = column THEN Head(keys).data
    ELSE KeyValue(Tail(keys), column)

\* RepositoryImpl.update up to the commit: the row the UPDATE leaves for
\* db_obj at clock reading t.  Every column of db_obj that is a key of the
\* main data is set from the payload, updated_at included; the flush sends
\* the changed columns, and updated_at's onupdate fires only when the
\* UPDATE does not set updated_at itself.  Nothing changed, no UPDATE.
update(model_name, db_obj, obj_in, t) ==
    LET main_data == validate_nested_data(model_name, obj_in).main
        stamp == KeyValue(main_data.keys, "updated_at")
        val == IF main_data.val = Null THEN db_obj.val ELSE main_data.val
    IN IF stamp # Null /\ stamp # db_obj.updated_at
       THEN [db_obj EXCEPT !.val = val, !.updated_at = stamp]
       ELSE IF val # db_obj.val
       THEN [db_obj EXCEPT !.val = val, !.updated_at = t]
       ELSE db_obj

\* RepositoryImpl.update as one step; db_obj is the stored record with id i.
Update(m, i, obj_in) ==
    /\ HasRow(rows[m], i)
    /\ UNCHANGED <<nextId, accepted, vin, vout, links, req, ret, manager, pc>>
    /\ last' = Call("update", i, NoTs, "ok")
    /\ IF update(m, RowOf(rows[m], i), obj_in, now + 1) = RowOf(rows[m], i)
       THEN UNCHANGED <<now, rows>>
       ELSE /\ UtcNow
            /\ Put(m, RowOf(rows[m], i), update(m, RowOf(rows[m], i), obj_in, now + 1))

\* RepositoryImpl.delete: the row is removed, soft-deleted or not.
Delete(m, i) ==
    /\ UNCHANGED <<now, nextId, accepted, vin, vout, links, req, ret, manager, pc>>
    /\ IF ~HasRow(rows[m], i)
       THEN /\ last' = Call("delete", i, NoTs, "none")
            /\ UNCHANGED rows
       ELSE /\ rows' = [rows EXCEPT ![m] = @ \ {RowOf(@, i)}]
            /\ last' = Call("delete", i, NoTs, "ok")

\* RepositoryImpl._get_dependent_records: finds no record, whatever the
\* model and the parent.
get_dependent_records(s, dependent_model, parent_id) == {}

\* The pairs <<model, record>> the loops of the cascade methods visit.
DependentRecords(s, model_name, record) ==
    UNION {{<<d, x>> : x \in get_dependent_records(s, d, record.id)} :
           d \in get_model_dependents(CatalogManager, model_name)}

\* The records Session.delete reaches from the records in pending: the
\* delete cascades along every relationship whose cascade option contains
\* delete, loading the related records, and on from those.
RECURSIVE cascade_iterator(_, _, _)
cascade_iterator(s, pending, seen) ==
    LET fresh == pending \ seen
        reached == UNION {UNION {{<<r.target, j>> : j \in Related(s.rows, s.links, r, p[2])} :
                                 r \in {x \in Relationships :
                                           x.source = p[1] /\ x.cascade_delete}} :
                          p \in fresh}
    IN IF fresh = {} THEN seen
       ELSE cascade_iterator(s, reached, seen \cup fresh)

\* mutant of db.delete: the row of the record alone is removed
db_delete_row(s, model_name, record) ==
    [s EXCEPT !.rows[model_name] = {x \in @ : x.id # record.id}]

\* await db.delete(record): the record and the records the delete
\* cascades to are removed, and with each of them its rows in the
\* secondary tables of its many-to-many relationships.
db_delete(s, model_name, record) ==
    LET gone == cascade_iterator(s, {<<model_name, record.id>>}, {})
        secondary_of(l, p) ==
            \E r \in Relationships :
                /\ r.source = p[1] /\ r.secondary = l.table
                /\ <<r.local_col, p[2]>> \in l.cols
    IN [s EXCEPT !.rows = [m \in Models |-> {x \in s.rows[m] : <<m, x.id>> \notin gone}],
                 !.links = {l \in @ : ~\E p \in gone : secondary_of(l, p)}]

RECURSIVE hard_delete_with_cascade(_, _, _, _)
RECURSIVE hard_delete_records(_, _, _)
hard_delete_records(s, model_name, pending) ==
    IF pending = {} THEN s
    ELSE LET p == CHOOSE x \in pending : TRUE
         IN hard_delete_records(hard_delete_with_cascade(s, model_name, p[1], p[2]),
                                model_name, pending \ {p})

\* RepositoryImpl._hard_delete_with_cascade on a record of table tbl: the
\* dependent records first, then db.delete(record).
hard_delete_with_cascade(s, model_name, tbl, record) ==
    db_delete(hard_delete_records(s, model_name, DependentRecords(s, model_name, record)),
              tbl, record)

RECURSIVE soft_delete_with_cascade(_, _, _, _)
RECURSIVE soft_delete_records(_, _, _)
soft_delete_records(s, model_name, pending) ==
    IF pending = {} THEN s
    ELSE LET p == CHOOSE x \in pending : TRUE
         IN soft_delete_records(soft_delete_with_cascade(s, model_name, p[1], p[2]),
                                model_name, pending \ {p})

\* RepositoryImpl._soft_delete_with_cascade: the dependent records first,
\* then record.deleted_at = utcnow() (the UPDATE fires updated_at's
\* onupdate).
soft_delete_with_cascade(s, model_name, tbl, record) ==
    LET s1 == soft_delete_records(s, model_name, DependentRecords(s, model_name, record))
    IN [s1 EXCEPT !.rows[tbl] =
          {IF x.id = record.id THEN [x EXCEPT !.deleted_at = s.t, !.updated_at = s.t]
           ELSE x : x \in @}]

\* What the committed session s of a delete leaves behind.
Deleted(s) == rows' = s.crows /\ links' = s.clinks

\* RepositoryImpl.delete_with_cascade.  Returns None ("none") when no
\* active record has the id.
DeleteWithCascade(m, i, hard_delete) ==
    LET op == IF hard_delete THEN "hard_delete_with_cascade"
              ELSE "soft_delete_with_cascade"
        found == get_by_id(rows[m], i, FALSE)
    IN /\ UNCHANGED <<nextId, accepted, vin, vout, manager, pc>>
       /\ req' = Request(m, <<>>, Null)
       /\ ret' = NoInstance
       /\ IF found = {}
          THEN /\ last' = Call(op, i, NoTs, "none")
               /\ UNCHANGED <<now, rows, links>>
          ELSE /\ UtcNow
               /\ Deleted(Commit(IF hard_delete
                                 THEN hard_delete_with_cascade(Begin(Null), m, m, RowOf(found, i))
                                 ELSE soft_delete_with_cascade(Begin(Null), m, m, RowOf(found, i))))
               /\ last' = Call(op, i, NoTs, "ok")

\* ------------------------------------------------------ manage_relations
\* An item of manage_relations' obj_in: a dict (a new related record) or
\* a str (the id of an existing one).
DictItem == [kind |-> "dict", id |-> 0]
StrItem(j) == [kind |-> "str", id |-> j]

\* RepositoryImpl._link_relationship, _unlink_relationship and
\* _clear_relationship: each logs and does nothing.
link_relationship(s, model_name, parent_id, rel_name, related_id) == s
unlink_relationship(s, model_name, parent_id, rel_name, related_id) == s
clear_relationship(s, model_name, parent_id, rel_name) == s

\* RepositoryImpl._get_related_by_id: the rows the query returns
get_related_by_id(s, related_model, related_id) ==
    {x \in s.rows[related_model] : x.id = related_id}

\* One item of the add loop: a dict is inserted and flushed, a str is
\* looked up; the record is then handed to _link_relationship.
add_item(s, model_name, parent_id, relation_name, item, related_model) ==
    IF item.kind = "dict"
    THEN link_relationship(Flush(s, related_model, NewRow(s, Null)),
                           model_name, parent_id, relation_name, s.nextId[related_model])
    ELSE IF get_related_by_id(s, related_model, item.id) = {} THEN s
    ELSE link_relationship(s, model_name, parent_id, relation_name, item.id)

\* RepositoryImpl._manage_collection_relationship
RECURSIVE manage_collection_relationship(_, _, _, _, _, _, _)
manage_collection_relationship(s, model_name, parent_id, relation_name, obj_in, related_model, operation) ==
    IF operation = "replace"
    THEN manage_collection_relationship(
             clear_relationship(s, model_name, parent_id, relation_name),
             model_name, parent_id, relation_name, obj_in, related_model, "add")
    ELSE IF obj_in = <<>> \/ operation \notin {"add", "remove"} THEN s
    ELSE manage_collection_relationship(
             IF operation = "add"
             THEN add_item(s, model_name, parent_id, relation_name, Head(obj_in),
                           related_model)
             ELSE IF Head(obj_in).kind = "str"
             THEN unlink_relationship(s, model_name, parent_id, relation_name,
                                      Head(obj_in).id)
             ELSE s,
             model_name, parent_id, relation_name, Tail(obj_in), related_model, operation)

\* RepositoryImpl._manage_single_relationship: the first item only,
\* whatever the operation.
manage_single_relationship(s, model_name, instance_id, relation_name, obj_in, related_model, operation) ==
    IF obj_in = <<>> THEN s
    ELSE add_item(s, model_name, instance_id, relation_name, Head(obj_in), related_model)

\* RepositoryImpl.manage_relations from the dispatch on the relationship
\* type to the commit.
manage_relations(m, parent_id, relation_name, obj_in, operation) ==
    LET rel_type == get_relationship_type(m, relation_name)
        related_model == get_related_model(m, relation_name)
    IN Commit(IF rel_type \in {"one_to_many", "many_to_many"}
              THEN manage_collection_relationship(Begin(Null), m, parent_id, relation_name,
                                                  obj_in, related_model, operation)
              ELSE manage_single_relationship(Begin(Null), m, parent_id, relation_name,
                                              obj_in, related_model, operation))

\* RepositoryImpl.manage_relations as one step.  Returns None ("none")
\* when no active record has the id; a name that is no relationship of
\* the model raises ValueError ("error").
ManageRelations(m, parent_id, relation_name, obj_in, operation) ==
    LET refused(st) == /\ last' = Call("manage_relations", parent_id, NoTs, st)
                       /\ req' = Request(m, <<>>, Null)
                       /\ UNCHANGED <<now, rows, links, nextId>>
    IN /\ UNCHANGED <<accepted, vin, vout, manager, pc>>
       /\ ret' = NoInstance
       /\ IF get_by_id(rows[m], parent_id, FALSE) = {} THEN refused("none")
          ELSE IF RelsOf(m, relation_name) = {} THEN refused("error")
          ELSE /\ UtcNow
               /\ Persist(manage_relations(m, parent_id, relation_name, obj_in, operation))
               /\ last' = Call("manage_relations", parent_id, NoTs, "ok")
               /\ req' = [Request(m, <<[rel |-> relation_name, data |-> obj_in]>>, Null)
                            EXCEPT !.sync_mode = operation]

Next ==
    \/ \E m \in ScalarModels : Create(m, Payload(Null, <<>>))
    \/ \E m \in ScalarModels, i \in Ids, exp \in ExpectedTs :
            UpdateWithOptimisticLock(m, i, exp)
    \/ \E m \in ScalarModels, i \in Ids :
         \E exp \in ExpectedTs \cup {UtcTs(r.updated_at) : r \in rows[m]}, v \in PayloadVals :
            UpdateWithOptimisticLockAndRelations(m, i, exp, Payload(v, <<>>), "merge")
    \/ \E m \in ScalarModels, i \in Ids : SoftDelete(m, i)
    \/ \E m \in ScalarModels, i \in Ids : Restore(m, i)
    \/ \E m \in ScalarModels, i \in Ids : Delete(m, i)

Spec == Init /\ [][Next]_vars

\* ------------------------------------------- relationship operations
\* The payloads of the relationship calls: a User with a list of posts,
\* each post with or without one tag; a Post with a list of tags; a Tag
\* with a list of posts.  A list repeats one item up to MaxChildren times;
\* a created record carries no scalar value, an update may set one.
Repeat(item, k) == [j \in 1..k |-> item]
Nest(rel_name, items, lo) ==
    {<<>>} \cup {<<Entry(rel_name, "list", Repeat(x, k))>> :
                    x \in items, k \in lo..MaxChildren}
Leaf == Payload(Null, <<>>)
PostItems == {Leaf, Payload(Null, <<Entry("tags", "list", <<Leaf>>)>>)}
NestedData(m) ==
    CASE m = "User" -> Nest("posts", PostItems, 0)
      [] m = "Post" -> Nest("tags", {Leaf}, 1)
      [] m = "Tag" -> Nest("posts", {Leaf}, 1)
\* A Post may also be created with the dict of its user.
ParentData(m) == IF m = "Post" THEN {<<Entry("user", "dict", <<Leaf>>)>>} ELSE {}
CreatePayloads(m) == {Payload(Null, n) : n \in NestedData(m) \cup ParentData(m)}
UpdatePayloads(m) == {Payload(v, n) : v \in {Null, MaxVal}, n \in NestedData(m)}

\* The ids a caller passes: those of the stored records, active or not.
StoredIds(m) == {r.id : r \in rows[m]}

\* The sync_mode argument of update_with_optimistic_lock_and_relations
\* (merge is the default).
SyncModes == {"merge", "replace"}

\* The arguments of manage_relations: a relationship of the model or a
\* name that is none, one of the three operations, and a list of ids of
\* stored records of the related model or of one dict.
RelNames(m) == {r.name : r \in {x \in Relationships : x.source = m}} \cup {"unknown"}
Operations == {"add", "remove", "replace"}
ItemLists(related_model) ==
    {<<>>, <<DictItem>>}
    \cup {<<StrItem(j)>> : j \in (IF related_model = "none" THEN {}
                                  ELSE StoredIds(related_model))}

\* At most MaxCalls calls are made in one behaviour.
NextRel ==
    \/ \E m \in Models : \E obj_in \in CreatePayloads(m) :
            now < MaxCalls /\ Create(m, obj_in)
    \/ \E m \in Models : \E obj_in \in CreatePayloads(m) :
            now < MaxCalls /\ CreateWithRelations(m, obj_in)
    \/ \E m \in Models, sync_mode \in SyncModes :
         \E i \in StoredIds(m), obj_in \in UpdatePayloads(m) :
            now < MaxCalls
            /\ UpdateWithOptimisticLockAndRelations(m, i, NoTs, obj_in, sync_mode)
    \/ \E m \in Models, hard_delete \in BOOLEAN : \E i \in StoredIds(m) :
            now < MaxCalls /\ DeleteWithCascade(m, i, hard_delete)

SpecRel == Init /\ [][NextRel]_vars

\* manage_relations on records that create and create_with_relations
\* stored.
NextManage ==
    \/ \E m \in Models : \E obj_in \in CreatePayloads(m) :
            now < MaxCalls /\ Create(m, obj_in)
    \/ \E m \in Models : \E obj_in \in CreatePayloads(m) :
            now < MaxCalls /\ CreateWithRelations(m, obj_in)
    \/ \E m \in Models, operation \in Operations :
         \E parent_id \in StoredIds(m), relation_name \in RelNames(m) :
           \E obj_in \in ItemLists(get_related_model(m, relation_name)) :
            now < MaxCalls
            /\ ManageRelations(m, parent_id, relation_name, obj_in, operation)

SpecManage == Init /\ [][NextManage]_vars

\* ---------------------------------------------- validator on its own
\* validate_optimistic_lock is a pure function: the arguments are drawn
\* in the initial state and one call computes the outcome.
VTimes == 0..(2 * ToleranceSeconds * TicksPerSecond)

ValidateInputs ==
    [expected : {BadTs} \cup {NaiveTs(t) : t \in VTimes} \cup {UtcTs(t) : t \in VTimes},
     actual : [aware : BOOLEAN, t : VTimes]]

InitValidate ==
    /\ now = 0
    /\ rows = [m \in Models |-> {}]
    /\ nextId = [m \in Models |-> 1]
    /\ last = NoCall
    /\ accepted = {}
    /\ vin \in ValidateInputs
    /\ vout = "none"
    /\ links = {}
    /\ req = NoRequest
    /\ ret = NoInstance
    /\ manager = CatalogManager
    /\ pc = NoCalls

Validate ==
    /\ vout = "none"
    /\ vout' = validate_optimistic_lock(vin.expected, vin.actual)
    /\ UNCHANGED <<now, rows, nextId, last, accepted, vin, links, req, ret, manager, pc>>

SpecValidate == InitValidate /\ [][Validate]_vars

\* ------------------------------------- validate_nested_data on its own
\* validate_nested_data is a pure function of the model name and the
\* payload: a registered model or one that is not, and a payload of up
\* to MaxKeys keys, each a relationship name of some model or a column
\* name, with a list, a dict, a scalar or None as its value.
SplitModels == Models \cup {"Comment"}
SplitKeys == {"posts", "tags", "user", "title"}
SplitEntries ==
    {Entry(k, "list", d) : k \in SplitKeys, d \in {<<>>, <<Leaf>>}}
    \cup {Entry(k, kind, <<>>) : k \in SplitKeys, kind \in {"dict", "scalar", "null"}}
SplitPayloads ==
    {Payload(Null, q) :
        q \in {x \in UNION {[1..n -> SplitEntries] : n \in 0..MaxKeys} :
                 \A a, b \in DOMAIN x : a # b => x[a].rel # x[b].rel}}

NotSplit == [done |-> FALSE]

InitSplit ==
    /\ now = 0
    /\ rows = [m \in Models |-> {}]
    /\ nextId = [m \in Models |-> 1]
    /\ last = NoCall
    /\ accepted = {}
    /\ vin \in [model_name : SplitModels, data : SplitPayloads]
    /\ vout = NotSplit
    /\ links = {}
    /\ req = NoRequest
    /\ ret = NoInstance
    /\ manager = CatalogManager
    /\ pc = NoCalls

Split ==
    /\ ~vout.done
    /\ vout' = [done |-> TRUE, result |-> validate_nested_data(vin.model_name, vin.data)]
    /\ UNCHANGED <<now, rows, nextId, last, accepted, vin, links, req, ret, manager, pc>>

SpecSplit == InitSplit /\ [][Split]_vars

\* ------------------------------------------- relationship graph on its own
MaxEdges == 3
MaxDepth == 2

\* The relationships the model classes declare, each under a name of its
\* own: up to MaxEdges of them between any two models in any order, and
\* every graph without parallel edges, its relationships declared source
\* by source.
RelationshipNames == <<"r1", "r2", "r3", "r4", "r5", "r6", "r7", "r8", "r9">>
Declared(k, source, target) ==
    [source |-> source, name |-> RelationshipNames[k], target |-> target,
     direction |-> "ONETOMANY", uselist |-> TRUE, foreign_key |-> "",
     secondary |-> "none", local_col |-> "", remote_col |-> "",
     cascade_delete |-> FALSE]
Declarations ==
    LET all == <<"User", "Post", "Tag">>
        pair(j) == <<all[((j - 1) \div 3) + 1], all[((j - 1) % 3) + 1]>>
        nth(S, k) == CHOOSE j \in S : Cardinality({i \in S : i < j}) = k - 1
    IN UNION {{[k \in 1..n |-> Declared(k, ends[k][1], ends[k][2])] :
               ends \in [1..n -> Models \X Models]} : n \in 0..MaxEdges}
       \cup {[k \in 1..Cardinality(S) |->
                Declared(k, pair(nth(S, k))[1], pair(nth(S, k))[2])] : S \in SUBSET (1..9)}

\* The model lists initialize is called with (None discovers every model);
\* a list may name a model twice
ModelLists == {<<"User", "Post", "Tag">>, <<"Tag", "User", "Tag">>}

NoQuery == [fn |-> "none"]

InitGraph ==
    /\ now = 0
    /\ rows = [m \in Models |-> {}]
    /\ nextId = [m \in Models |-> 1]
    /\ last = NoCall
    /\ accepted = {}
    /\ vin \in [relationships : Declarations]
    /\ vout = NoQuery
    /\ links = {}
    /\ req = NoRequest
    /\ ret = NoInstance
    /\ manager = NewManager
    /\ pc = NoCalls

graphFrame == <<now, rows, nextId, last, accepted, vin, links, req, ret, pc>>

\* A query leaves the manager as it is, so a behaviour is followed up to
\* its first query: any number of initialize calls, then one query.
Queried == vout.fn \notin {"none", "initialize"}

\* initialize(models)
Initialize(models) ==
    /\ ~Queried
    /\ manager' = initialize(manager, models, vin.relationships)
    /\ vout' = [fn |-> "initialize", models |-> models]
    /\ UNCHANGED graphFrame

FindPath(source_model, target_model, max_depth) ==
    /\ ~Queried
    /\ vout' = [fn |-> "find_path", source_model |-> source_model,
                target_model |-> target_model, max_depth |-> max_depth,
                result |-> find_path(manager, source_model, target_model, max_depth)]
    /\ UNCHANGED <<graphFrame, manager, pc>>

DetectCycles ==
    /\ ~Queried
    /\ vout' = [fn |-> "detect_cycles", result |-> detect_cycles(manager)]
    /\ UNCHANGED <<graphFrame, manager, pc>>

GetModelDependencies(model_name) ==
    /\ ~Queried
    /\ vout' = [fn |-> "get_model_dependencies", model_name |-> model_name,
                result |-> get_model_dependencies(manager, model_name)]
    /\ UNCHANGED <<graphFrame, manager, pc>>

GetModelDependents(model_name) ==
    /\ ~Queried
    /\ vout' = [fn |-> "get_model_dependents", model_name |-> model_name,
                result |-> get_model_dependents(manager, model_name)]
    /\ UNCHANGED <<graphFrame, manager, pc>>

NextGraph ==
    \/ \E models \in ModelLists : Initialize(models)
    \/ \E source_model, target_model \in Models : \E max_depth \in 0..MaxDepth :
            FindPath(source_model, target_model, max_depth)
    \/ DetectCycles
    \/ \E model_name \in Models : GetModelDependencies(model_name)
    \/ \E model_name \in Models : GetModelDependents(model_name)

SpecGraph == InitGraph /\ [][NextGraph]_vars

\* ------------------------------------------- overlapping initialize calls
\* initialize takes no lock: two threads that call it on the global
\* manager may each be anywhere in it.  A call is followed statement by
\* statement; pc[c].at is the statement call c is about to run.
Callers == {1, 2}

InitOverlap ==
    /\ now = 0
    /\ rows = [m \in Models |-> {}]
    /\ nextId = [m \in Models |-> 1]
    /\ last = NoCall
    /\ accepted = {}
    /\ vin \in [relationships : Declarations]
    /\ vout = NoQuery
    /\ links = {}
    /\ req = NoRequest
    /\ ret = NoInstance
    /\ manager = NewManager
    /\ \E models \in ModelLists : pc = [c \in Callers |-> [at |-> "test", models |-> models]]

overlapFrame == <<now, rows, nextId, last, accepted, vin, vout, links, req, ret>>

At(c, at) == pc[c].at = at
Goto(c, at) == pc' = [pc EXCEPT ![c].at = at]

\* if self._initialized: return
TestInitialized(c) ==
    /\ At(c, "test")
    /\ Goto(c, IF manager.initialized THEN "returned" ELSE "register")
    /\ UNCHANGED <<overlapFrame, manager>>

\* for model in models: self._register_model(model)
RegisterModels(c) ==
    /\ At(c, "register")
    /\ manager' = [manager EXCEPT !.nodes = register_models(@, pc[c].models)]
    /\ Goto(c, "edges")
    /\ UNCHANGED overlapFrame

\* self._build_relationship_edges()
BuildRelationshipEdges(c) ==
    /\ At(c, "edges")
    /\ manager' = [manager EXCEPT !.edges =
                       @ \o build_relationship_edges(manager.nodes, manager.nodes,
                                                     vin.relationships)]
    /\ Goto(c, "adjacency")
    /\ UNCHANGED overlapFrame

\* self._build_adjacency_lists()
BuildAdjacencyLists(c) ==
    /\ At(c, "adjacency")
    /\ manager' = [manager EXCEPT
                       !.adjacency_list = build_adjacency_list(@, manager.edges),
                       !.reverse_adjacency_list =
                           build_reverse_adjacency_list(@, manager.edges)]
    /\ Goto(c, "flag")
    /\ UNCHANGED overlapFrame

\* self._initialized = True
SetInitialized(c) ==
    /\ At(c, "flag")
    /\ manager' = [manager EXCEPT !.initialized = TRUE]
    /\ Goto(c, "done")
    /\ UNCHANGED overlapFrame

NextOverlap ==
    \/ \E c \in Callers : TestInitialized(c)
    \/ \E c \in Callers : RegisterModels(c)
    \/ \E c \in Callers : BuildRelationshipEdges(c)
    \/ \E c \in Callers : BuildAdjacencyLists(c)
    \/ \E c \in Callers : SetInitialized(c)

SpecOverlap == InitOverlap /\ [][NextOverlap]_vars

\* ------------------------------------------- concurrent lock-checked updates
\* Two requests, each in a session and transaction of its own, update the
\* same User at the same time.  The database runs at its default isolation
\* (read committed): a read sees what is committed, an UPDATE locks the
\* row until its transaction ends, and an UPDATE that meets a locked row
\* waits and then tests its WHERE clause on the committed row.  Between
\* two awaits a request runs alone.  pc[c] holds the call c makes (fn, the
\* expected updated_at exp, the value val it writes), the statement it is
\* at, the row it has written and not yet committed (pending, a set of at
\* most one row)
\* and its outcome.
CallKinds == {"uwol", "uwolar"}

RaceCall(fn, exp) == [fn |-> fn, exp |-> exp, at |-> "start", pending |-> {},
                      status |-> "none"]

\* One User, created at the first reading of the clock.
InitRace ==
    /\ now = 1
    /\ rows = [m \in Models |-> IF m = "User" THEN {Row(1, Null, 1, 1, Null)} ELSE {}]
    /\ nextId = [m \in Models |-> IF m = "User" THEN 2 ELSE 1]
    /\ last = NoCall
    /\ accepted = {}
    /\ vin = NoValidation
    /\ vout = NoValidation
    /\ links = {}
    /\ req = NoRequest
    /\ ret = NoInstance
    /\ manager = CatalogManager
    /\ pc \in [Callers -> {RaceCall(fn, NaiveTs(t)) : fn \in CallKinds, t \in Times}]

raceFrame == <<nextId, last, accepted, vin, vout, links, req, ret, manager>>

\* No other transaction holds the lock of the row.
RowFree(c) == \A d \in Callers \ {c} : pc[d].pending = {}

\* mutant of UwolExecute: the UPDATE does not wait for the row lock
UwolExecuteNoRowLock(c) ==
    /\ pc[c].fn = "uwol" /\ pc[c].at = "start"
    /\ LET hit == LockMatched(rows["User"], 1, pc[c].exp) IN
       IF hit = {}
       THEN /\ pc' = [pc EXCEPT ![c].at = "recheck"]
            /\ UNCHANGED now
       ELSE /\ UtcNow
            /\ pc' = [pc EXCEPT ![c].at = "commit",
                                ![c].pending = {[r EXCEPT !.val = c, !.updated_at = now'] :
                                                r \in hit}]
    /\ UNCHANGED <<rows, raceFrame>>

\* update_with_optimistic_lock, await db.execute(query): the conditional
\* UPDATE with updated_at = utcnow(), sent once the row is free; call c
\* writes the value c.
UwolExecute(c) ==
    /\ pc[c].fn = "uwol" /\ pc[c].at = "start"
    /\ RowFree(c)
    /\ LET hit == LockMatched(rows["User"], 1, pc[c].exp) IN
       IF hit = {}
       THEN /\ pc' = [pc EXCEPT ![c].at = "recheck"]
            /\ UNCHANGED now
       ELSE /\ UtcNow
            /\ pc' = [pc EXCEPT ![c].at = "commit",
                                ![c].pending = {[r EXCEPT !.val = c, !.updated_at = now'] :
                                                r \in hit}]
    /\ UNCHANGED <<rows, raceFrame>>

\* update_with_optimistic_lock, rowcount == 0: get_by_id, then 404 or 409
UwolRecheck(c) ==
    /\ pc[c].fn = "uwol" /\ pc[c].at = "recheck"
    /\ pc' = [pc EXCEPT ![c].at = "done",
                        ![c].status = IF get_by_id(rows["User"], 1, FALSE) = {}
                                      THEN "404" ELSE "409"]
    /\ UNCHANGED <<now, rows, raceFrame>>

\* update_with_optimistic_lock, await db.commit()
UwolCommit(c) ==
    /\ pc[c].fn = "uwol" /\ pc[c].at = "commit"
    /\ Put("User", RowOf(rows["User"], 1), RowOf(pc[c].pending, 1))
    /\ pc' = [pc EXCEPT ![c].at = "done", ![c].pending = {}, ![c].status = "ok"]
    /\ UNCHANGED <<now, raceFrame>>

\* update_with_optimistic_lock_and_relations, from await get_by_id to the
\* lock check on the record read: None, 409, or on to the update
UwolarCheck(c) ==
    /\ pc[c].fn = "uwolar" /\ pc[c].at = "start"
    /\ LET found == get_by_id(rows["User"], 1, FALSE) IN
       pc' = IF found = {} THEN [pc EXCEPT ![c].at = "done", ![c].status = "none"]
             ELSE IF RowOf(found, 1).updated_at # parse_timestamp(pc[c].exp).t
             THEN [pc EXCEPT ![c].at = "done", ![c].status = "409"]
             ELSE [pc EXCEPT ![c].at = "write"]
    /\ UNCHANGED <<now, rows, raceFrame>>

\* update_with_optimistic_lock_and_relations, the fields set on the record
\* read, updated_at = utcnow() and await db.commit(): the UPDATE by primary
\* key is flushed and committed, once the row is free.
UwolarCommit(c) ==
    /\ pc[c].fn = "uwolar" /\ pc[c].at = "write"
    /\ RowFree(c)
    /\ UtcNow
    /\ Put("User", RowOf(rows["User"], 1),
           [RowOf(rows["User"], 1) EXCEPT !.val = c, !.updated_at = now'])
    /\ pc' = [pc EXCEPT ![c].at = "done", ![c].status = "ok"]
    /\ UNCHANGED raceFrame

NextRace ==
    \/ \E c \in Callers : UwolExecute(c)
    \/ \E c \in Callers : UwolRecheck(c)
    \/ \E c \in Callers : UwolCommit(c)
    \/ \E c \in Callers : UwolarCheck(c)
    \/ \E c \in Callers : UwolarCommit(c)

SpecRace == InitRace /\ [][NextRace]_vars

\* -------------------------------------- get_application_type on its own
MaxClassifyCalls == 3

\* The direction constants of sqlalchemy.orm that SQLALCHEMY_TO_APPLICATION
\* has a key for.
Directions == {"ONETOMANY", "MANYTOONE", "MANYTOMANY"}

\* vout is the list of the calls made so far, each with its arguments and
\* the RelationshipType it returned.
InitClassify ==
    /\ now = 0
    /\ rows = [m \in Models |-> {}]
    /\ nextId = [m \in Models |-> 1]
    /\ last = NoCall
    /\ accepted = {}
    /\ vin = NoValidation
    /\ vout = <<>>
    /\ links = {}
    /\ req = NoRequest
    /\ ret = NoInstance
    /\ manager = CatalogManager
    /\ pc = NoCalls

Classify(sqlalchemy_direction, uselist) ==
    /\ Len(vout) < MaxClassifyCalls
    /\ vout' = Append(vout, [sqlalchemy_direction |-> sqlalchemy_direction,
                             uselist |-> uselist,
                             result |-> get_application_type(sqlalchemy_direction, uselist)])
    /\ UNCHANGED <<now, rows, nextId, last, accepted, vin, links, req, ret, manager, pc>>

NextClassify ==
    \E sqlalchemy_direction \in Directions, uselist \in BOOLEAN :
        Classify(sqlalchemy_direction, uselist)

SpecClassify == InitClassify /\ [][NextClassify]_vars

\* ------------------------------------------- writes followed by a query
\* mutant of build_base_query: the deleted_at filter is dropped
build_base_query_unscoped(tbl, include_deleted) == tbl

\* DefaultQueryBuilder.build_base_query without filter_by: the rows of the
\* table, the soft-deleted ones only with include_deleted
build_base_query(tbl, include_deleted) ==
    {r \in tbl : include_deleted \/ r.deleted_at = Null}

\* RepositoryImpl.get_all with skip = 0 and the default limit, no sorting:
\* the rows of the base query, any DefaultLimit of them when there are
\* more
DefaultLimit == 100
get_all(tbl, include_deleted) ==
    LET query == build_base_query(tbl, include_deleted)
    IN IF Cardinality(query) <= DefaultLimit THEN query
       ELSE CHOOSE page \in SUBSET query : Cardinality(page) = DefaultLimit

\* RepositoryImpl.count
count(tbl, include_deleted) == Cardinality(build_base_query(tbl, include_deleted))

\* The payloads of update: the scalar value or none, and an updated_at key
\* or none, holding any datetime of the clock's range.
StampKeys == {<<>>} \cup {<<Entry("updated_at", "scalar", t)>> : t \in Times}
WritePayloads == {Payload(v, keys) : v \in PayloadVals, keys \in StampKeys}

\* The updated_at a lock-checked update sends: none, or the stored one.
StoredTs(m) == {NoTs} \cup {NaiveTs(r.updated_at) : r \in rows[m]}

InitWrites ==
    /\ now = 0
    /\ rows = [m \in Models |-> {}]
    /\ nextId = [m \in Models |-> 1]
    /\ last = NoCall
    /\ accepted = {}
    /\ vin = NoValidation
    /\ vout = NoQuery
    /\ links = {}
    /\ req = NoRequest
    /\ ret = NoInstance
    /\ manager = CatalogManager
    /\ pc = NoCalls

writeFrame == <<now, rows, nextId, last, accepted, vin, links, req, ret, manager, pc>>

GetById(m, i, include_deleted) ==
    /\ vout' = [fn |-> "get_by_id", model |-> m, id |-> i,
                include_deleted |-> include_deleted,
                result |-> get_by_id(rows[m], i, include_deleted)]
    /\ UNCHANGED writeFrame

GetAll(m, include_deleted) ==
    /\ vout' = [fn |-> "get_all", model |-> m, include_deleted |-> include_deleted,
                result |-> get_all(rows[m], include_deleted)]
    /\ UNCHANGED writeFrame

Count(m, include_deleted) ==
    /\ vout' = [fn |-> "count", model |-> m, include_deleted |-> include_deleted,
                result |-> count(rows[m], include_deleted)]
    /\ UNCHANGED writeFrame

\* A query changes no row, so a behaviour is followed up to its first
\* query: any sequence of writes, then one query.
Unqueried == vout = NoQuery

NextWrites ==
    \/ \E m \in ScalarModels : Unqueried /\ Create(m, Payload(Null, <<>>))
    \/ \E m \in ScalarModels, i \in Ids, obj_in \in WritePayloads :
            Unqueried /\ Update(m, i, obj_in)
    \/ \E m \in ScalarModels, i \in Ids : \E exp \in StoredTs(m) :
            Unqueried /\ UpdateWithOptimisticLock(m, i, exp)
    \/ \E m \in ScalarModels, i \in Ids, v \in PayloadVals : \E exp \in StoredTs(m) :
            Unqueried
            /\ UpdateWithOptimisticLockAndRelations(m, i, exp, Payload(v, <<>>), "merge")
    \/ \E m \in ScalarModels, i \in Ids : Unqueried /\ SoftDelete(m, i)
    \/ \E m \in ScalarModels, i \in Ids : Unqueried /\ Restore(m, i)
    \/ \E m \in ScalarModels, i \in Ids : Unqueried /\ Delete(m, i)
    \/ \E m \in ScalarModels, i \in Ids, include_deleted \in BOOLEAN :
            Unqueried /\ GetById(m, i, include_deleted)
    \/ \E m \in ScalarModels, include_deleted \in BOOLEAN :
            Unqueried /\ GetAll(m, include_deleted)
    \/ \E m \in ScalarModels, include_deleted \in BOOLEAN :
            Unqueried /\ Count(m, include_deleted)

SpecWrites == InitWrites /\ [][NextWrites]_vars

\* ------------------------------------------------------------ claims
\* The step is a call of operation op (every call records itself in last).
IsCall(op) == last'.op = op
Users == rows["User"]
Active(tbl, i) == \E r \in tbl : r.id = i /\ r.deleted_at = Null
SoftDeleted(tbl, i) == \E r \in tbl : r.id = i /\ r.deleted_at # Null
Stored(tbl, i) == (CHOOSE r \in tbl : r.id = i).updated_at

\* C1 (as stated): for a record whose stored updated_at is t0,
\* update_with_optimistic_lock(expected = t0) succeeds and leaves
\* updated_at at some t1 > t0; any later call on the same record that
\* still passes t0 fails with 409 and does not change the record.
C1_Original ==
    [][(IsCall("uwol") /\ last'.exp.fmt = "naive" /\ HasRow(Users, last'.id)) =>
         LET i == last'.id
             t0 == last'.exp.t IN
         /\ (Stored(Users, i) = t0) =>
               /\ last'.status = "ok"
               /\ Stored(rows'["User"], i) > t0
         /\ (<<i, t0>> \in accepted) =>
               /\ last'.status = "409"
               /\ rows' = rows]_vars

\* C1 (amended): for an active record whose stored updated_at is t0,
\* update_with_optimistic_lock(expected = t0) succeeds and sets
\* updated_at to the clock reading t1 of the call, t1 > t0; a call that
\* passes t0 while the stored updated_at is not t0 (any later call with
\* the stale t0) leaves every row unchanged and fails with 409 if the
\* record is active and with 404 if it is soft-deleted.
C1_StaleRejected ==
    [][(IsCall("uwol") /\ last'.exp.fmt = "naive" /\ HasRow(Users, last'.id)) =>
         LET i == last'.id
             t0 == last'.exp.t IN
         /\ (Active(Users, i) /\ Stored(Users, i) = t0) =>
               /\ last'.status = "ok"
               /\ Stored(rows'["User"], i) = now'
               /\ now' > now
               /\ (t0 <= now => Stored(rows'["User"], i) > t0)
         /\ (Stored(Users, i) # t0) =>
               /\ rows' = rows
               /\ last'.status = IF Active(Users, i) THEN "409" ELSE "404"]_vars

\* C1 witness: a call with a stale t0, accepted once before, is rejected
\* with 409.
C1_Witness ==
    /\ last.op = "uwol"
    /\ last.status = "409"
    /\ <<last.id, last.exp.t>> \in accepted

C3_Original ==
    [][((IsCall("uwol") \/ IsCall("uwolar"))
          /\ last'.exp.fmt = "naive" /\ Active(Users, last'.id)) =>
         LET d == Stored(Users, last'.id) - last'.exp.t IN
         /\ (Abs(d) <= ToleranceSeconds * TicksPerSecond) => last'.status = "ok"
         /\ (Abs(d) > ToleranceSeconds * TicksPerSecond) => last'.status = "409"]_vars

\* C4: when the conditional UPDATE of update_with_optimistic_lock
\* matches no row, the call fails with 404 if no active record has the
\* id and with 409 if one has; it never succeeds and writes nothing.
C4_ZeroRows ==
    [][(IsCall("uwol") /\ last'.exp.fmt \in {"none", "naive"}) =>
         LET i == last'.id
             matched == {r \in Users : /\ r.id = i
                                       /\ (last'.exp.fmt = "naive" =>
                                             r.updated_at = last'.exp.t)} IN
         (matched = {}) =>
            /\ last'.status = IF Active(Users, i) THEN "409" ELSE "404"
            /\ rows' = rows]_vars

\* C4 witness: no row matched and the only record with the id is
\* soft-deleted: 404.
C4_Witness ==
    /\ last.op = "uwol"
    /\ last.status = "404"
    /\ SoftDeleted(Users, last.id)

\* C5 (as stated): update_with_optimistic_lock on a soft-deleted record,
\* with or without expected_updated_at, fails with NotFound and leaves
\* the record unchanged.
C5_Original ==
    [][(IsCall("uwol") /\ last'.exp.fmt \in {"none", "naive"}
          /\ SoftDeleted(Users, last'.id)) =>
         /\ last'.status = "404"
         /\ rows' = rows]_vars

\* The records that depend on the records in ps through a one-to-many
\* relationship with the flag on its edge: the rows of the target model
\* whose foreign key holds the id of one of them.
DependOn(tbls, flag(_), ps) ==
    UNION {UNION {{<<e.target_model, x.id>> :
                      x \in {y \in tbls[e.target_model] :
                               \E r \in RelsOf(e.source_model, e.relationship_name) :
                                   <<r.foreign_key, p[2]>> \in y.fk}} :
                  e \in {d \in Edges : /\ d.source_model = p[1]
                                       /\ d.relationship_type = "one_to_many"
                                       /\ flag(d)}} :
           p \in ps}

\* The transitive dependents of the record i of model m (a chain of
\* dependents is shorter than the number of models).
Dependents(tbls, flag(_), m, i) ==
    LET d1 == DependOn(tbls, flag, {<<m, i>>})
        d2 == d1 \cup DependOn(tbls, flag, d1)
    IN d2 \cup DependOn(tbls, flag, d2)

IdsOf(tbl) == {r.id : r \in tbl}

C7_Original ==
    [][(IsCall("soft_delete_with_cascade") /\ last'.status = "ok") =>
         LET m == req'.model
             i == last'.id IN
         /\ \A t \in Models : IdsOf(rows'[t]) = IdsOf(rows[t])
         /\ SoftDeleted(rows'[m], i)
         /\ \A p \in Dependents(rows, LAMBDA e : e.cascade_soft_delete, m, i) :
                SoftDeleted(rows'[p[1]], p[2])]_vars

\* The top-level entries of the nested data of the call just made whose
\* relationship is of the given type.
NestedOf(rel_type) ==
    {k \in DOMAIN req'.nested :
        get_relationship_type(req'.model, req'.nested[k].rel) = rel_type}

\* C8: create_with_relations with a list of N children under a
\* one-to-many relationship creates exactly N records of the child
\* model, each with its foreign key equal to the id of the new parent,
\* and the instance read back by get_by_id_with_relations on the new id
\* holds exactly N children under that relationship.
C8_OneToManyChildren ==
    [][(IsCall("create_with_relations") /\ last'.status = "ok") =>
         \A k \in NestedOf("one_to_many") :
            LET m == req'.model
                rel_name == req'.nested[k].rel
                N == Len(req'.nested[k].data)
                r == CHOOSE x \in RelsOf(m, rel_name) : TRUE
                created == rows'[r.target] \ rows[r.target] IN
            /\ Cardinality(created) = N
            /\ \A c \in created : c.fk = {<<r.foreign_key, last'.id>>}
            /\ ret'.found /\ ret'.id = last'.id
            /\ Cardinality({l \in ret'.loaded : l[1] = rel_name}) = N
            /\ {l[2] : l \in {x \in ret'.loaded : x[1] = rel_name}} = IdsOf(created)]_vars

\* C8 witness: a user created with MaxChildren posts is read back with
\* MaxChildren posts.
C8_Witness ==
    /\ last.op = "create_with_relations"
    /\ last.status = "ok"
    /\ req.model = "User"
    /\ Cardinality({l \in ret.loaded : l[1] = "posts"}) = MaxChildren
    /\ Cardinality({c \in rows["Post"] : <<"user_id", last.id>> \in c.fk}) = MaxChildren

\* C9 (as stated): for every many-to-many relationship of every model,
\* create_with_relations with a list of K related objects inserts K rows
\* in the junction table of the relationship, each linking the new
\* parent to one of the K related records.
C9_Original ==
    [][(IsCall("create_with_relations") /\ last'.status = "ok") =>
         \A k \in NestedOf("many_to_many") :
            LET r == CHOOSE x \in RelsOf(req'.model, req'.nested[k].rel) : TRUE
                K == Len(req'.nested[k].data)
                inserted == {l \in links' \ links :
                                /\ l.table = r.secondary
                                /\ <<r.local_col, last'.id>> \in l.cols} IN
            /\ Cardinality(inserted) = K
            /\ \A l \in inserted :
                   \E x \in rows'[r.target] \ rows[r.target] :
                       <<r.remote_col, x.id>> \in l.cols]_vars

\* C10: when a statement of the nested processing of create_with_relations
\* or update_with_optimistic_lock_and_relations fails, nothing the call
\* did is committed: the stored rows and junction rows are the ones
\* before the call.
C10_FailureCommitsNothing ==
    [][((IsCall("create_with_relations") \/ IsCall("uwolar"))
          /\ last'.status = "failed") =>
         /\ rows' = rows
         /\ links' = links]_vars

\* C10 witness: the statement that failed came after the main record and
\* one child had been flushed.
C10_Witness ==
    /\ last.op \in {"create_with_relations", "uwolar"}
    /\ last.status = "failed"
    /\ req.failAt >= 3

\* C11: create with a payload that carries nested relationship data
\* succeeds and stores exactly one new record of the model, with the main
\* fields only; no record of another model and no junction row is
\* created.
C11_CreateIgnoresNested ==
    [][(IsCall("create") /\ req'.nested # <<>>) =>
         LET m == req'.model IN
         /\ last'.status = "ok"
         /\ rows[m] \subseteq rows'[m]
         /\ \E r \in rows'[m] :
               /\ rows'[m] \ rows[m] = {r}
               /\ r.id = last'.id /\ r.fk = {} /\ r.deleted_at = Null
         /\ \A t \in Models \ {m} : rows'[t] = rows[t]
         /\ links' = links]_vars

\* C11 witness: a user was created from a payload with posts, and no
\* post is stored.
C11_Witness ==
    /\ last.op = "create"
    /\ last.status = "ok"
    /\ req.model = "User"
    /\ req.nested # <<>>
    /\ rows["Post"] = {}

\* C12 (as stated): update_with_optimistic_lock_and_relations with
\* sync_mode = merge leaves the relationships alone: whatever nested data
\* the payload carries, no related record is created, removed or
\* soft-deleted and no junction row is written or removed; only the
\* updated record itself may change.
C12_Original ==
    [][(IsCall("uwolar") /\ last'.status = "ok"
          /\ req'.sync_mode = "merge" /\ req'.nested # <<>>) =>
         LET m == req'.model IN
         /\ \A t \in Models \ {m} : rows'[t] = rows[t]
         /\ {r \in rows'[m] : r.id # last'.id} = {r \in rows[m] : r.id # last'.id}
         /\ links' = links]_vars

\* C13: after update_with_optimistic_lock_and_relations in replace mode
\* with a list L under a one-to-many relationship, every child that
\* referenced the parent before the call is soft-deleted or gone, and
\* exactly Len(L) newly created active children reference the parent.
C13_ReplaceOneToMany ==
    [][(IsCall("uwolar") /\ last'.status = "ok" /\ req'.sync_mode = "replace") =>
         \A k \in NestedOf("one_to_many") :
            LET r == CHOOSE x \in RelsOf(req'.model, req'.nested[k].rel) : TRUE
                L == req'.nested[k].data
                refers(x) == <<r.foreign_key, last'.id>> \in x.fk
                before == {x \in rows[r.target] : refers(x)}
                created == {x \in rows'[r.target] :
                              /\ refers(x) /\ x.deleted_at = Null
                              /\ x.id \notin IdsOf(rows[r.target])} IN
            /\ \A x \in before : ~Active(rows'[r.target], x.id)
            /\ Cardinality(created) = Len(L)
            /\ {x \in rows'[r.target] : refers(x) /\ x.deleted_at = Null} = created]_vars

\* C13 witness: a user's post was replaced: one post of the user is
\* soft-deleted, another one is active.
C13_Witness ==
    /\ last.op = "uwolar"
    /\ last.status = "ok"
    /\ req.model = "User"
    /\ req.sync_mode = "replace"
    /\ \E x, y \in rows["Post"] :
          /\ <<"user_id", last.id>> \in x.fk /\ x.deleted_at # Null
          /\ <<"user_id", last.id>> \in y.fk /\ y.deleted_at = Null

\* C14 (as stated): after manage_relations(parent_id, relation_name,
\* items, operation = add) with the ids of existing related records as
\* items, each of those records is linked to the parent under the
\* relationship: by its foreign key or by a junction row.
C14_Original ==
    [][(IsCall("manage_relations") /\ last'.status = "ok"
          /\ req'.sync_mode = "add") =>
         \A k \in DOMAIN req'.nested :
            LET r == CHOOSE x \in RelsOf(req'.model, req'.nested[k].rel) : TRUE
                items == req'.nested[k].data IN
            \A n \in DOMAIN items :
               (items[n].kind = "str" /\ items[n].id \in IdsOf(rows[r.target])) =>
                  items[n].id \in Related(rows', links', r, last'.id)]_vars

\* The keys of a sequence of payload entries, and the entries as a set.
KeysOf(q) == {q[k].rel : k \in DOMAIN q}
EntriesOf(q) == {q[k] : k \in DOMAIN q}

\* C15: for a registered model and any payload, the main and the nested
\* keys validate_nested_data returns are disjoint; nested holds exactly
\* the relationship-named keys whose value is a dict or a list, main
\* exactly the keys that name no relationship; a relationship-named key
\* with a scalar or None value is in neither; every key kept keeps its
\* value.
C15_SplitPartition ==
    (vout.done /\ vin.model_name \in Models) =>
        LET m == vin.model_name
            all == EntriesOf(vin.data.nested)
            main == vout.result.main.keys
            nested == vout.result.nested
            names(e) == RelsOf(m, e.rel) # {} IN
        /\ vout.result.ok
        /\ KeysOf(main) \cap KeysOf(nested) = {}
        /\ EntriesOf(nested) = {e \in all : names(e) /\ e.kind \in {"dict", "list"}}
        /\ EntriesOf(main) = {e \in all : ~names(e)}
        /\ vout.result.main.val = vin.data.val
        /\ Len(main) + Len(nested) <= Len(vin.data.nested)
        /\ \A e \in all : (names(e) /\ e.kind \in {"scalar", "null"}) =>
               e.rel \notin KeysOf(main) \cup KeysOf(nested)

\* C15 witness: a payload of a registered model with a relationship key
\* holding a scalar was split, and the key was dropped.
C15_Witness ==
    /\ vout.done
    /\ vin.model_name = "User"
    /\ \E e \in EntriesOf(vin.data.nested) :
          /\ e.rel = "posts" /\ e.kind = "scalar"
          /\ e.rel \notin KeysOf(vout.result.main.keys) \cup KeysOf(vout.result.nested)
    /\ vout.result.main.keys # <<>>

\* C16 (as stated): validate_nested_data never fails: for a model name
\* that is not registered it returns the whole payload as main data and
\* no nested data.
C16_Original ==
    (vout.done /\ vin.model_name \notin Models) =>
        /\ vout.result.ok
        /\ vout.result.main.keys = vin.data.nested
        /\ vout.result.nested = <<>>

\* The models one edge away from a model of S, and the models at most n
\* edges away from a model of S, over the edges of the manager.
Successors(g, S) == {e.target_model : e \in {x \in Range(g.edges) : x.source_model \in S}}
RECURSIVE Within(_, _, _)
Within(g, S, n) == IF n = 0 THEN S ELSE Within(g, S \cup Successors(g, S), n - 1)
Registered(model_name) == model_name \in Range(manager.nodes)

\* A sequence of edges of the manager that leads from source to target,
\* each edge starting where the one before it ends.
Connected(path, source, target) ==
    /\ \A k \in DOMAIN path : path[k] \in Range(manager.edges)
    /\ \A k \in 1..(Len(path) - 1) : path[k].target_model = path[k + 1].source_model
    /\ IF path = <<>> THEN source = target
       ELSE path[1].source_model = source /\ path[Len(path)].target_model = target

\* C17: between registered models find_path returns a path exactly when the
\* target is at most max_depth edges away from the source (zero edges when
\* the two are the same model); the path returned is a connected sequence
\* of edges from source to target, and no shorter one exists.
C17_FindPath ==
    (vout.fn = "find_path" /\ Registered(vout.source_model)
                           /\ Registered(vout.target_model)) =>
        /\ vout.result.found <=>
               vout.target_model \in Within(manager, {vout.source_model}, vout.max_depth)
        /\ vout.result.found =>
               /\ Connected(vout.result.path, vout.source_model, vout.target_model)
               /\ \A n \in 0..(Len(vout.result.path) - 1) :
                      vout.target_model \notin Within(manager, {vout.source_model}, n)

\* a two-edge path is returned although the target has a longer way too
C17_Witness ==
    /\ vout.fn = "find_path" /\ vout.result.found
    /\ Len(vout.result.path) = MaxDepth /\ vout.max_depth = MaxDepth
    /\ Len(manager.edges) = MaxEdges

\* The models reachable from a model over one edge or more, and whether the
\* manager has an edge from a to b.
Reach(g, model_name) == Within(g, Successors(g, {model_name}), Cardinality(Models))
HasEdge(g, a, b) == \E e \in Range(g.edges) : e.source_model = a /\ e.target_model = b
Acyclic(g) == \A n \in Range(g.nodes) : n \notin Reach(g, n)

\* C18: detect_cycles returns the empty list exactly when no model reaches
\* itself over one edge or more; when two models have an edge each way, one
\* of the reported cycles contains both.
C18_DetectCycles ==
    vout.fn = "detect_cycles" =>
        /\ vout.result = <<>> <=> Acyclic(manager)
        /\ \A a, b \in Range(manager.nodes) :
               HasEdge(manager, a, b) /\ HasEdge(manager, b, a) =>
                   \E k \in DOMAIN vout.result : {a, b} \subseteq Range(vout.result[k])

\* two distinct models with an edge each way, next to a third edge
C18_Witness ==
    /\ vout.fn = "detect_cycles" /\ vout.result # <<>>
    /\ Len(manager.edges) = MaxEdges
    /\ \E a, b \in Range(manager.nodes) :
           a # b /\ HasEdge(manager, a, b) /\ HasEdge(manager, b, a)

\* The simple cycles of the manager's graph: sequences of distinct
\* registered models, each with an edge to the next and the last with an
\* edge to the first.
SimpleCycles ==
    {cyc \in UNION {[1..n -> Range(manager.nodes)] : n \in 1..Cardinality(Models)} :
        /\ \A i, j \in DOMAIN cyc : i # j => cyc[i] # cyc[j]
        /\ \A i \in DOMAIN cyc : HasEdge(manager, cyc[i], cyc[(i % Len(cyc)) + 1])}
\* The reported list is the cycle from some start node, closed by that node.
Reports(list, cyc) ==
    /\ Len(list) = Len(cyc) + 1
    /\ \E shift \in 0..(Len(cyc) - 1) :
           \A i \in DOMAIN list : list[i] = cyc[((i - 1 + shift) % Len(cyc)) + 1]

\* C25: every simple cycle of the relationship graph is reported by
\* detect_cycles: some returned list is that cycle's nodes in order, from
\* some start node.  Violated: a cycle that closes over an edge to a model
\* already visited and no longer on the recursion stack is not reported.
C25_EverySimpleCycle ==
    vout.fn = "detect_cycles" =>
        \A cyc \in SimpleCycles : \E k \in DOMAIN vout.result : Reports(vout.result[k], cyc)

\* C25 as the code has it: every list detect_cycles returns is a simple
\* cycle of the graph, closed by its start node, and every simple cycle
\* shares its strongly connected component with a returned one; the cycle
\* itself need not be listed.
C25_ReportedCycles ==
    vout.fn = "detect_cycles" =>
        /\ \A k \in DOMAIN vout.result : \E cyc \in SimpleCycles : Reports(vout.result[k], cyc)
        /\ \A cyc \in SimpleCycles : \E k \in DOMAIN vout.result :
               \A n \in Range(vout.result[k]) :
                   n \in Reach(manager, cyc[1]) /\ cyc[1] \in Reach(manager, n)

\* a cycle found below the root of the search, and a simple cycle that is
\* not listed
C25_Witness ==
    /\ vout.fn = "detect_cycles"
    /\ \E k \in DOMAIN vout.result : vout.result[k][1] # manager.nodes[1]
    /\ \E cyc \in SimpleCycles : \A k \in DOMAIN vout.result : ~Reports(vout.result[k], cyc)

\* The models from which a model is reachable over one edge or more.
ReachedFrom(g, model_name) == {n \in Range(g.nodes) : model_name \in Reach(g, n)}

\* C19: get_model_dependencies(M) is the set of models reachable from M
\* over one forward edge or more, and get_model_dependents(M) the set of
\* models from which M is so reachable, in cyclic graphs too: M is in
\* either set exactly when M lies on a cycle.
C19_Closure ==
    /\ vout.fn = "get_model_dependencies" =>
           /\ vout.result = Reach(manager, vout.model_name)
           /\ vout.model_name \in vout.result <=>
                  vout.model_name \in Reach(manager, vout.model_name)
    /\ vout.fn = "get_model_dependents" =>
           /\ vout.result = ReachedFrom(manager, vout.model_name)
           /\ vout.model_name \in vout.result <=>
                  vout.model_name \in Reach(manager, vout.model_name)

\* the dependencies of a model on a cycle of two models, itself among them,
\* with a third model reached from the cycle
C19_Witness ==
    /\ vout.fn = "get_model_dependencies"
    /\ vout.model_name \in vout.result
    /\ Cardinality(vout.result) = Cardinality(Models)
    /\ ~HasEdge(manager, vout.model_name, vout.model_name)

\* C20: an initialize call on a manager that is already initialized, with
\* any model list, changes none of nodes, edges, the forward and reverse
\* adjacency lists and the initialized flag.
C20_InitializeOnce ==
    [][(manager.initialized /\ vout'.fn = "initialize") =>
           /\ manager'.nodes = manager.nodes
           /\ manager'.edges = manager.edges
           /\ manager'.adjacency_list = manager.adjacency_list
           /\ manager'.reverse_adjacency_list = manager.reverse_adjacency_list
           /\ manager'.initialized]_vars

\* a later call with a model the first call did not register, on a manager
\* that holds edges
C20_Witness ==
    /\ vout.fn = "initialize" /\ manager.initialized
    /\ \E m \in Range(vout.models) : m \notin Range(manager.nodes)
    /\ manager.edges # <<>>

\* C21: on the three known directions get_application_type returns
\* one_to_one for many-to-one without uselist, many_to_one for many-to-one
\* with uselist, one_to_many and many_to_many for the other two directions
\* whatever uselist is; two calls with the same arguments return the same
\* type.
C21_Classify ==
    /\ \A k \in DOMAIN vout :
          vout[k].result =
              CASE vout[k].sqlalchemy_direction = "MANYTOONE" /\ ~vout[k].uselist
                      -> "one_to_one"
                [] vout[k].sqlalchemy_direction = "MANYTOONE" /\ vout[k].uselist
                      -> "many_to_one"
                [] vout[k].sqlalchemy_direction = "ONETOMANY" -> "one_to_many"
                [] vout[k].sqlalchemy_direction = "MANYTOMANY" -> "many_to_many"
    /\ \A j, k \in DOMAIN vout :
          (vout[j].sqlalchemy_direction = vout[k].sqlalchemy_direction
           /\ vout[j].uselist = vout[k].uselist) => vout[j].result = vout[k].result

\* the same many-to-one, single-valued arguments classified twice, and a
\* list-valued many-to-one between the two calls
C21_Witness ==
    /\ Len(vout) = 3
    /\ vout[1] = vout[3] /\ vout[1].result = "one_to_one"
    /\ vout[2].result = "many_to_one"

\* C22: whatever writes came before, get_by_id, get_all and count with
\* include_deleted false return and count no record whose deleted_at is
\* set, and with include_deleted true they return and count every stored
\* record, the soft-deleted ones too.
C22_QueryScope ==
    LET tbl == rows[vout.model]
        active == {r \in tbl : r.deleted_at = Null}
    IN /\ vout.fn = "get_by_id" =>
            vout.result = {r \in (IF vout.include_deleted THEN tbl ELSE active) :
                              r.id = vout.id}
       /\ vout.fn = "get_all" =>
            vout.result = (IF vout.include_deleted THEN tbl ELSE active)
       /\ vout.fn = "count" =>
            vout.result = Cardinality(IF vout.include_deleted THEN tbl ELSE active)

\* a count of the active records of a table that holds a soft-deleted
\* record next to an active one
C22_Witness ==
    /\ vout.fn = "count" /\ ~vout.include_deleted /\ vout.result = 1
    /\ \E r \in rows[vout.model] : r.deleted_at # Null

\* C23: a soft_delete that finds the record leaves it with deleted_at set
\* and hidden from get_by_id without include_deleted; a restore that finds
\* it leaves it with deleted_at cleared and visible again; every other
\* record is left as it was by either call.
C23_SingleRecord ==
    [][(last'.status = "ok" /\ (IsCall("soft_delete") \/ IsCall("restore"))) =>
         /\ IdsOf(Users') = IdsOf(Users)
         /\ \A r \in Users : r.id # last'.id => r \in Users'
         /\ IsCall("soft_delete") =>
                /\ SoftDeleted(Users', last'.id)
                /\ get_by_id(Users', last'.id, FALSE) = {}
         /\ IsCall("restore") =>
                /\ Active(Users', last'.id)
                /\ get_by_id(Users', last'.id, FALSE) # {}]_vars

\* a record created, soft-deleted and then restored by the call before
C23_Witness ==
    /\ last = Call("restore", last.id, NoTs, "ok")
    /\ \E r \in Users : /\ r.id = last.id /\ r.deleted_at = Null
                         /\ r.updated_at = now /\ r.updated_at > r.created_at + 1

\* The model whose id a foreign-key or junction column holds.
ModelOfField(column) == CHOOSE p \in Models : ParentIdField(p) = column
Assigned(tbls, pair) == pair[2] >= 1 /\ pair[2] \in IdsOf(tbls[ModelOfField(pair[1])])

\* C24: every record and every junction row that a create_with_relations
\* call writes holds, in each foreign-key or junction column, the id of a
\* stored record of the referenced model, the id its flush assigned; none
\* holds an unassigned id.
C24_FlushBeforeKey ==
    [][(IsCall("create_with_relations") /\ last'.status = "ok") =>
         /\ \A m \in Models : \A r \in rows'[m] \ rows[m] :
                r.id >= 1 /\ \A pair \in r.fk : Assigned(rows', pair)
         /\ \A l \in links' \ links : \A pair \in l.cols : Assigned(rows', pair)]_vars

\* a user created with a post that has a tag: a foreign key and the two
\* columns of a junction row hold ids assigned in the same call
C24_Witness ==
    /\ last.op = "create_with_relations" /\ last.status = "ok"
    /\ req.model = "User"
    /\ \E r \in rows["Post"] : <<"user_id", last.id>> \in r.fk
    /\ links # {}

\* C26: when two initialize calls on the same manager overlap, both having
\* tested the initialized flag before either has set it (so that neither
\* returns early), the graph they leave is the graph of a single initialize: every relationship is one
\* edge of the edge list and one entry of each adjacency list.  Violated:
\* both calls run the body, and each appends every edge.
C26_OverlapAsSingle ==
    (\A c \in Callers : At(c, "done")) =>
        manager = initialize(NewManager, pc[1].models, vin.relationships)

\* C27: the clock never goes back, and no engine write (create, update,
\* update_with_optimistic_lock, update_with_optimistic_lock_and_relations,
\* soft_delete, restore) lowers the stored updated_at of a record, whatever
\* updated_at the payload carries.  Violated: update writes the payload's
\* updated_at to the record.
C27_UpdatedAtMonotone ==
    [][/\ now' >= now
       /\ \A m \in Models : \A old \in rows[m] : \A new \in rows'[m] :
              new.id = old.id => new.updated_at >= old.updated_at]_vars

\* C28: after the first initialize(models) on a fresh manager, with the
\* models given or discovered, is_initialized() is true and the registered
\* node names are exactly the class names of the models, each registered
\* once however often it is listed; when no relationship joins two of the
\* models the edge list is empty.
C28_FirstInitialize ==
    [][(~is_initialized(manager) /\ vout'.fn = "initialize") =>
           /\ is_initialized(manager')
           /\ Range(manager'.nodes) = Range(vout'.models)
           /\ Len(manager'.nodes) = Cardinality(Range(vout'.models))
           /\ (\A r \in Range(vin.relationships) :
                   ~(r.source \in Range(vout'.models) /\ r.target \in Range(vout'.models)))
               => manager'.edges = <<>>]_vars

\* a first call whose list names a model twice, with relationships declared
\* but none between two models of the list
C28_Witness ==
    /\ vout.fn = "initialize" /\ is_initialized(manager)
    /\ Len(vout.models) > Len(manager.nodes)
    /\ Range(manager.nodes) = Range(vout.models)
    /\ vin.relationships # <<>> /\ manager.edges = <<>>

\* Both calls are calls of fn that carry the updated_at the record had
\* when they started, and both have returned.
BothDone(fn) ==
    \A c \in Callers : /\ pc[c].fn = fn /\ pc[c].at = "done"
                        /\ pc[c].exp = NaiveTs(RowOf(rows["User"], 1).created_at)
Succeeded == {c \in Callers : pc[c].status = "ok"}

\* C29: of two concurrent update_with_optimistic_lock calls on a record
\* that both expect its current updated_at, one succeeds and the other
\* matches no row and fails with a conflict; the record holds what the
\* successful call wrote.
C29_OneWinner ==
    BothDone("uwol") =>
        /\ Cardinality(Succeeded) = 1
        /\ \A c \in Callers \ Succeeded : pc[c].status = "409"
        /\ \A c \in Succeeded : RowOf(rows["User"], 1).val = c

\* the second call sent its UPDATE while the first had not yet committed
C29_Witness ==
    /\ \A c \in Callers : pc[c].fn = "uwol" /\ pc[c].exp = NaiveTs(now - 1)
    /\ \E c, d \in Callers : /\ pc[c].at = "commit" /\ pc[c].pending # {}
                               /\ pc[d].at = "start"
                               /\ RowOf(rows["User"], 1).updated_at = now - 1

\* C30: of two concurrent update_with_optimistic_lock_and_relations calls
\* on a record that both carry its current updated_at, at most one commits
\* its changes.  Violated: both read the record and pass the lock check
\* before either commits, and the second commit replaces the first.
C30_OneCommit ==
    BothDone("uwolar") => Cardinality(Succeeded) <= 1

====
